---- MODULE Spec2Model ----
(***************************************************************************)
(* flint-ls: the debounce scheduler (lsp.LspHandler), the document and     *)
(* config store (core.LangHandler), the linting pipeline (RunAllLinters)   *)
(* and the formatting pipeline (RunAllFormatters).                         *)
(*                                                                         *)
(* Goroutines are modelled as records with a program position; one action  *)
(* is one step between two points where another goroutine can interleave.  *)
(* A section executed under lintMu / formatMu is one step.  A send on an   *)
(* unbuffered channel and the notifier call of its (single) consumer is    *)
(* one step, recorded in the log of the run that owns the channel.         *)
(*                                                                         *)
(* The functions that depend on their arguments only (config selection,    *)
(* root markers, exit status, entry filenames, diagnostic ranges and       *)
(* severities, text edits) are operators; SpecPure applies each of them to *)
(* arguments drawn from finite sets and records the call in probe.         *)
(***************************************************************************)
EXTENDS Integers, Sequences, FiniteSets, TLC

\* ---------------------------------------------------------------- bounds
MaxTime == 3        \* the clock stops here
MaxRuns == 2        \* timer callbacks (lint runs) created in one behaviour
MaxTimers == 2      \* time.Timer objects alive at once
MaxRefs == 2        \* fileRef objects allocated in one behaviour
MaxVersion == 1     \* document versions a client sends: 0..MaxVersion
MaxDebounce == 2    \* debounce durations a client configures: 1..MaxDebounce

URIs == {"u1", "u2"}
Handlers == {"h1", "h2"}          \* goroutines serving requests concurrently
Events == {"change", "save", "open"}
RunIds == 1..MaxRuns
TimerIds == 1..MaxTimers
RefIds == 1..MaxRefs
NoRun == 0
NoTimer == 0
NoRef == 0

Wildcard == "="

unknownExitCode == -999

\* ------------------------------------------------------------ config table
\* types.Language, reduced to the fields the pipelines branch on.
\* FormatsValid stands for "errorformat.NewErrorformat accepts LintFormats".
\* The three event flags are *bool: "unset", "true", "false".
Language(lint, fmt, req, markers, open, change, save, ignore) ==
    [LintCommand |-> lint, FormatCommand |-> fmt, RequireMarker |-> req,
     RootMarkers |-> markers, LintAfterOpen |-> open, LintOnChange |-> change,
     LintOnSave |-> save, LintIgnoreExitCode |-> ignore, FormatsValid |-> TRUE]

\* a root marker: pat is the marker without trailing slashes, slash says
\* that it is written with one (".git/")
Marker(pat, slash) == [pat |-> pat, slash |-> slash]

CfgA == Language("lintA", "fmtA", FALSE, <<>>, "unset", "unset", "unset", TRUE)
CfgM == Language("lintM", "fmtM", TRUE, <<Marker("Makefile", FALSE)>>,
                 "unset", "unset", "unset", TRUE)
CfgC == Language("", "fmtC", FALSE, <<Marker(".git", TRUE)>>,
                 "unset", "unset", "unset", FALSE)
CfgB == Language("lintB", "", FALSE, <<Marker("go.mod", FALSE)>>,
                 "unset", "true", "false", FALSE)

Langs == {"go", "vim", "txt"}

\* the table the server is constructed with: language id -> list of Language
Table == [l \in Langs \cup {Wildcard} |->
             CASE l = "go" -> <<CfgA, CfgM, CfgC>>
               [] l = "vim" -> <<CfgC>>
               [] l = Wildcard -> <<CfgB>>
               [] OTHER -> <<>>]

boolOrDefault(b, def) == IF b = "unset" THEN def ELSE b = "true"

\* getAllConfigsForLang where the wildcard entries stand in for a language id
\* that has no entries of its own
getAllConfigsForLangSubst(allConfigs, langId) ==
    IF langId \in DOMAIN allConfigs /\ allConfigs[langId] # <<>>
    THEN allConfigs[langId]
    ELSE IF Wildcard \in DOMAIN allConfigs THEN allConfigs[Wildcard] ELSE <<>>

getAllConfigsForLang(allConfigs, langId) ==
    (IF langId \in DOMAIN allConfigs THEN allConfigs[langId] ELSE <<>>)
    \o (IF Wildcard \in DOMAIN allConfigs THEN allConfigs[Wildcard] ELSE <<>>)

\* ----------------------------------------------------------- file system
\* A path is the list of its names from the root: <<>> is "/".  NoPath is the
\* empty string, which is the path of nothing.
NoPath == <<"">>

\* os.ReadDir results: directory -> entries; a path that is not here cannot
\* be read and has no entries
Entry(name, isDir) == [name |-> name, isDir |-> isDir]
Disk ==
    (<<>> :> {Entry("proj", TRUE), Entry("tmp", TRUE), Entry("srv", TRUE)})
    @@ (<<"proj">> :> {Entry(".git", TRUE), Entry("go.mod", FALSE),
                       Entry("src", TRUE), Entry("a.go", FALSE)})
    @@ (<<"proj", "src">> :> {Entry("b.go", FALSE)})
    @@ (<<"tmp">> :> {Entry("c.go", FALSE), Entry("build", TRUE)})

ReadDir(dir) == IF dir \in DOMAIN Disk THEN Disk[dir] ELSE {}

\* filepath.Dir of an absolute path; the root is its own directory
Dir(path) == IF path = <<>> THEN <<>> ELSE SubSeq(path, 1, Len(path) - 1)

\* filepath.Match for the patterns used here: a literal name, or "*"
Match(pattern, name) == pattern = "*" \/ pattern = name

\* the path OpenFile records for a URI (NormalizedFilename)
normalizedFilenameFromUri(uri) ==
    IF uri = "u1" THEN <<"proj", "src", "b.go">> ELSE <<"proj", "a.go">>

\* LangHandler.RootPath
RootPath == <<"srv">>

\* matchRootPath, lines 139-157: some entry of dir matches some marker; a
\* marker with a trailing slash matches directories only, any other marker
\* files only
MarkerIn(dir, markers) ==
    \E file \in ReadDir(dir) : \E i \in DOMAIN markers :
        /\ markers[i].slash = file.isDir
        /\ Match(markers[i].pat, file.name)

\* matchRootPathFrom that looks into the directory of the file only
matchRootPathFromHere(dir, markers) ==
    IF MarkerIn(dir, markers) THEN dir ELSE NoPath

\* matchRootPath, lines 136-162: the loop from a directory up to the root
RECURSIVE matchRootPathFrom(_, _)
matchRootPathFrom(dir, markers) ==
    IF MarkerIn(dir, markers) THEN dir
    ELSE IF Dir(dir) = dir THEN NoPath
    ELSE matchRootPathFrom(Dir(dir), markers)

matchRootPath(fname, markers) == matchRootPathFrom(Dir(fname), markers)

findRootPath(fname, lang) ==
    LET dir == matchRootPath(fname, lang.RootMarkers) IN
    IF dir # NoPath THEN dir ELSE RootPath

\* EventGate where a save passes on the flag for changes
EventGateShared(cfg, eventType) ==
    CASE eventType = "open" -> boolOrDefault(cfg.LintAfterOpen, TRUE)
      [] eventType = "change" -> boolOrDefault(cfg.LintOnChange, TRUE)
      [] eventType = "save" -> boolOrDefault(cfg.LintOnChange, TRUE)
      [] OTHER -> TRUE

\* getLintConfigsForDocument, lines 509-523: the switch on the event type
EventGate(cfg, eventType) ==
    CASE eventType = "open" -> boolOrDefault(cfg.LintAfterOpen, TRUE)
      [] eventType = "change" -> boolOrDefault(cfg.LintOnChange, TRUE)
      [] eventType = "save" -> boolOrDefault(cfg.LintOnSave, TRUE)
      [] OTHER -> TRUE

LintSelected(fname, cfg, eventType) ==
    /\ cfg.LintCommand # ""
    /\ ~(matchRootPath(fname, cfg.RootMarkers) = NoPath /\ cfg.RequireMarker)
    /\ EventGate(cfg, eventType)

getLintConfigsForDocument(fname, langId, allConfigs, eventType) ==
    SelectSeq(getAllConfigsForLang(allConfigs, langId),
              LAMBDA cfg : LintSelected(fname, cfg, eventType))

\* runLintCommand where the output of a command that exits with a positive
\* code is parsed only with LintIgnoreExitCode
runLintCommandStrict(exit, cfg) ==
    IF exit = unknownExitCode THEN [parse |-> FALSE, err |-> TRUE]
    ELSE IF exit < 0 THEN [parse |-> FALSE, err |-> FALSE]
    ELSE [parse |-> cfg.LintIgnoreExitCode, err |-> FALSE]

\* runLintCommand: the exit status of the command decides what is parsed.
\* exit = unknownExitCode stands for an error that is no *exec.ExitError.
runLintCommand(exit, cfg) ==
    IF exit = 0
    THEN [parse |-> cfg.LintIgnoreExitCode, err |-> FALSE]
    ELSE IF exit = unknownExitCode THEN [parse |-> FALSE, err |-> TRUE]
    ELSE IF exit < 0 THEN [parse |-> FALSE, err |-> FALSE]
    ELSE [parse |-> TRUE, err |-> FALSE]

\* lintDocument: n is the number of entries of the output that are valid and
\* belong to the document; the result is an error or a list of n diagnostics.
lintDocument(cfg, exit, n) ==
    LET out == runLintCommand(exit, cfg) IN
    IF out.err THEN [err |-> TRUE, n |-> 0]
    ELSE IF ~cfg.FormatsValid THEN [err |-> TRUE, n |-> 0]
    ELSE [err |-> FALSE, n |-> IF out.parse THEN n ELSE 0]

\* ------------------------------------------------------- entry filenames
\* The filename of an errorformat entry: abs says that it starts with "/",
\* names are its elements; the empty string is the relative path without
\* elements.
Filename(abs, names) == [abs |-> abs, names |-> names]
EmptyFilename == Filename(FALSE, <<>>)

isStdinPlaceholder(s) ==
    ~s.abs /\ s.names \in {<<"stdin">>, <<"-">>, <<"<text>">>, <<"<stdin>">>}

\* replaceStdinInEntryFilename where the placeholder is replaced with or
\* without LintStdin
replaceStdinInEntryFilenameAlways(entryFilename, config, fname) ==
    IF isStdinPlaceholder(entryFilename) THEN Filename(TRUE, fname)
    ELSE entryFilename

\* replaceStdinInEntryFilename; filepath.ToSlash changes no path that is
\* written with slashes
replaceStdinInEntryFilename(entryFilename, config, fname) ==
    IF config.LintStdin /\ isStdinPlaceholder(entryFilename)
    THEN Filename(TRUE, fname)
    ELSE entryFilename

\* filepath.Clean of the elements of an absolute path: "." is dropped, ".."
\* drops the element before it (none at the root)
RECURSIVE CleanOnto(_, _)
CleanOnto(done, names) ==
    IF names = <<>> THEN done
    ELSE IF Head(names) = "." THEN CleanOnto(done, Tail(names))
    ELSE IF Head(names) = ".."
    THEN CleanOnto(IF done = <<>> THEN done ELSE SubSeq(done, 1, Len(done) - 1),
                   Tail(names))
    ELSE CleanOnto(Append(done, Head(names)), Tail(names))

\* filepath.Join(rootPath, filename) for an absolute rootPath
Join(rootPath, filename) == Filename(TRUE, CleanOnto(<<>>, rootPath \o filename.names))

\* ParseLocalFileToURI: the file URI of a path, as the path is written
ParseLocalFileToURI(filename) == <<"file:">> \o filename.names

\* comparePaths of the build that is not for Windows
comparePaths(path1, path2) == path1 = path2

isEntryForRequestedURI(rootPath, uri, entryFilename) ==
    IF entryFilename = EmptyFilename THEN TRUE
    ELSE LET diagURI == IF entryFilename.abs
                        THEN ParseLocalFileToURI(entryFilename)
                        ELSE ParseLocalFileToURI(Join(rootPath, entryFilename))
         IN  comparePaths(diagURI, uri)

\* lintDocument, lines 458-462: the entry is for the document f
entryIsForDocument(rootPath, f, config, entryFilename) ==
    isEntryForRequestedURI(rootPath, f.Uri,
        replaceStdinInEntryFilename(entryFilename, config, f.NormalizedFilename))

\* ----------------------------------------------------------- diagnostics
DiagError == 1
DiagWarning == 2
DiagInformation == 3
DiagHint == 4

\* the outcomes of a call: it returns a value, or the goroutine panics
\* (index out of range)
Returns(value) == [panic |-> FALSE, value |-> value]
Panics == [panic |-> TRUE]

\* getSeverity: typ is a character, categoryMap a map from strings to
\* strings (lists of characters), defaultSeverity is 0 when not configured.
\* With a map that is not empty the type becomes the first character of the
\* value under it; a missing key gives the empty string, which has no first
\* character.
getSeverity(typ, categoryMap, defaultSeverity) ==
    LET value == IF DOMAIN categoryMap = {} THEN <<typ>>
                 ELSE IF typ \in DOMAIN categoryMap THEN categoryMap[typ]
                 ELSE <<>>
    IN  IF value = <<>> THEN Panics
        ELSE Returns(CASE value[1] \in {"E", "e"} -> DiagError
                       [] value[1] \in {"W", "w"} -> DiagWarning
                       [] value[1] \in {"I", "i"} -> DiagInformation
                       [] value[1] \in {"N", "n"} -> DiagHint
                       [] OTHER -> IF defaultSeverity # 0 THEN defaultSeverity
                                   ELSE DiagError)

Max(a, b) == IF a >= b THEN a ELSE b

\* parseEfmEntryToDiagnostic where the column offset is applied to every entry
parseEfmEntryToDiagnosticShift(entry, config, wordLen) ==
    LET lineStart == Max(entry.Lnum - 1 - config.LintOffset, 0)
        colStart == Max(entry.Col - 1, 0) + config.LintOffsetColumns
        severity == getSeverity(entry.Type, config.LintCategoryMap,
                                config.LintSeverity)
    IN  IF severity.panic THEN Panics
        ELSE Returns(
             [Start |-> [Line |-> lineStart, Character |-> colStart],
              End |-> [Line |-> IF entry.EndLnum # 0
                                THEN Max(entry.EndLnum - 1 - config.LintOffset, 0)
                                ELSE lineStart,
                       Character |-> IF entry.EndCol # 0
                                     THEN Max(entry.EndCol - 1, 0)
                                            + config.LintOffsetColumns
                                     ELSE colStart + wordLen],
              Severity |-> severity.value])

\* parseEfmEntryToDiagnostic: the range and the severity of the diagnostic;
\* wordLen is len(WordAtUtf16(f.Text, start)), the length of the word of the
\* document at the start position
parseEfmEntryToDiagnostic(entry, config, wordLen) ==
    LET lineStart == Max(entry.Lnum - 1 - config.LintOffset, 0)
        lineEnd == IF entry.EndLnum # 0
                   THEN Max(entry.EndLnum - 1 - config.LintOffset, 0)
                   ELSE lineStart
        colStart0 == Max(entry.Col - 1, 0)
        colStart == IF entry.Col # 0 THEN colStart0 + config.LintOffsetColumns
                    ELSE colStart0
        colEnd == IF entry.Col # 0
                  THEN IF entry.EndCol # 0
                       THEN Max(entry.EndCol - 1, 0) + config.LintOffsetColumns
                       ELSE colStart + wordLen
                  ELSE colStart0
        severity == getSeverity(entry.Type, config.LintCategoryMap,
                                config.LintSeverity)
    IN  IF severity.panic THEN Panics
        ELSE Returns([Start |-> [Line |-> lineStart, Character |-> colStart],
                      End |-> [Line |-> lineEnd, Character |-> colEnd],
                      Severity |-> severity.value])

\* ------------------------------------------------------------------ state
Texts == {<<"a">>, <<"b">>}       \* document texts of the lint model

VARIABLES
    now,            \* the clock
    panicked,       \* a goroutine panicked: the process is gone
    configs,        \* LangHandler.configs
    files,          \* LangHandler.files: URI -> fileRef pointer (NoRef: absent)
    heap,           \* the fileRef objects the pointers refer to
    lintTimer,      \* LspHandler.lintTimer (NoTimer: nil)
    lintDebounce,   \* LspHandler.lintDebounce
    timers,         \* the time.Timer objects made by ScheduleLinting
    running,        \* the package variable running: URI -> cancel handle
    calls,          \* the ScheduleLinting call each handler goroutine is in
    runs,           \* the timer callbacks and the lint run each performs
    burst,          \* history: the current burst of ScheduleLinting calls
    formatTimer,    \* LspHandler.formatTimer (NoTimer: nil)
    formatDebounce, \* LspHandler.formatDebounce
    ftimers,        \* the time.Timer objects made by Formatting
    fcalls,         \* the Formatting call each handler goroutine is in
    expect,         \* history: the document each URI holds by the store calls
                    \* made so far, and the result of the last of them
    probe           \* the function applied last, its arguments and its result

fmtVars == <<formatTimer, formatDebounce, ftimers, fcalls>>
lintVars == <<lintTimer, lintDebounce, timers, running, calls, runs, burst>>
storeVars == <<configs, files, heap, expect>>

NoFile == [alloc |-> FALSE, Version |-> 0, LanguageID |-> "go", Text |-> <<"a">>]
NoDoc == [open |-> FALSE, Version |-> 0, LanguageID |-> "go", Text |-> <<"a">>]
NoProbe == [fn |-> "none", in |-> <<>>, done |-> TRUE, out |-> <<>>]
NoTimerRec == [st |-> "unused", deadline |-> 0, uri |-> "u1", ev |-> "change",
               cur |-> FALSE]
IdleCall == [pc |-> "idle", uri |-> "u1", ev |-> "change", cur |-> FALSE]
FreeRun == [pc |-> "free", uri |-> "u1", ev |-> "change", cancelled |-> FALSE,
            f |-> NoRef, v0 |-> 0, cfgs |-> <<>>, tasks |-> <<>>,
            diags |-> <<>>, errs |-> {}, prog |-> <<>>, ret |-> "none"]
NoBurst == [last |-> -1, deb |-> 0, uri |-> "u1", same |-> TRUE, runs |-> 0,
            early |-> FALSE]

\* the smallest element of a non-empty set of numbers
Least(S) == CHOOSE x \in S : \A y \in S : x <= y

\* ------------------------------------------------------- document store
\* the fileRef objects a lint run or a formatter run holds in its variable f
Held ==
    {runs[r].f : r \in {x \in RunIds : runs[x].pc \in {"reset", "begin", "tasks"}}}
    \cup {fcalls[h].f : h \in {x \in Handlers : fcalls[x].pc \in {"begin", "loop"}}}

\* a fileRef that neither the map fs nor a run refers to is garbage: its
\* record is given back
Sweep(hp, fs) ==
    [r \in RefIds |->
        IF r \in Held \/ \E u \in URIs : fs[u] = r THEN hp[r] ELSE NoFile]

\* LangHandler.OpenFile: a new fileRef replaces the one of the URI.  (History:
\* the URI should hold the document as opened.)
OpenFile(uri, languageID, version, text) ==
    /\ ~panicked
    /\ \E r \in RefIds : ~heap[r].alloc
    /\ LET r == Least({x \in RefIds : ~heap[x].alloc})
           fs == [files EXCEPT ![uri] = r]
       IN
        /\ heap' = Sweep([heap EXCEPT ![r] =
                            [alloc |-> TRUE, Version |-> version,
                             LanguageID |-> languageID, Text |-> text]], fs)
        /\ files' = fs
    /\ expect' = [doc |-> [expect.doc EXCEPT ![uri] =
                              [open |-> TRUE, Version |-> version,
                               LanguageID |-> languageID, Text |-> text]],
                  err |-> "none"]
    /\ UNCHANGED <<probe, fmtVars, now, panicked, configs, lintVars>>

\* LangHandler.UpdateFile: mutates the fileRef in place; version = -1 is nil.
\* An unknown URI is an error and changes nothing.  (History: the document an
\* open URI should hold gets the text and, when one is given, the version.)
UpdateFile(uri, text, version) ==
    /\ ~panicked
    /\ IF files[uri] = NoRef
       THEN UNCHANGED heap
       ELSE heap' = [heap EXCEPT ![files[uri]] =
                        [@ EXCEPT !.Text = text,
                                  !.Version = IF version = -1 THEN @ ELSE version]]
    /\ expect' = [doc |-> IF ~expect.doc[uri].open THEN expect.doc
                          ELSE [expect.doc EXCEPT ![uri] =
                                  [@ EXCEPT !.Text = text,
                                            !.Version = IF version = -1 THEN @
                                                        ELSE version]],
                  err |-> IF files[uri] = NoRef THEN "notfound" ELSE "none"]
    /\ UNCHANGED <<probe, fmtVars, now, panicked, configs, files, lintVars>>

\* CloseFile that leaves the entry of the URI in the map
CloseFileKeep(uri) ==
    /\ ~panicked
    /\ UNCHANGED <<files, heap>>
    /\ expect' = [doc |-> [expect.doc EXCEPT ![uri] = NoDoc], err |-> "none"]
    /\ UNCHANGED <<probe, fmtVars, now, panicked, configs, lintVars>>

\* LangHandler.CloseFile.  (History: the URI should hold no document.)
CloseFile(uri) ==
    /\ ~panicked
    /\ files' = [files EXCEPT ![uri] = NoRef]
    /\ heap' = Sweep(heap, files')
    /\ expect' = [doc |-> [expect.doc EXCEPT ![uri] = NoDoc], err |-> "none"]
    /\ UNCHANGED <<probe, fmtVars, now, panicked, configs, lintVars>>

\* Config.Languages, a *map[string][]Language: nil when the notification has
\* no languages, else a pointer to the map it has
NilLanguages == [nil |-> TRUE]
Languages(m) == [nil |-> FALSE, map |-> m]

\* UpdateConfiguration that adds the languages supplied to the table
UpdateConfigurationMerge(languages, lintD, formatD) ==
    /\ ~panicked
    /\ lintDebounce' = IF lintD > 0 THEN lintD ELSE lintDebounce
    /\ formatDebounce' = IF formatD > 0 THEN formatD ELSE formatDebounce
    /\ configs' = IF ~languages.nil
                  THEN [l \in DOMAIN configs \cup DOMAIN languages.map |->
                            IF l \in DOMAIN languages.map THEN languages.map[l]
                            ELSE configs[l]]
                  ELSE configs
    /\ UNCHANGED <<probe, now, panicked, files, heap, expect, lintTimer, timers, running,
                   calls, runs, burst, formatTimer, ftimers, fcalls>>

\* UpdateConfiguration where the runs in progress hold the table itself and
\* not the configs they selected from it
UpdateConfigurationLive(languages, lintD, formatD) ==
    /\ ~panicked
    /\ lintDebounce' = IF lintD > 0 THEN lintD ELSE lintDebounce
    /\ formatDebounce' = IF formatD > 0 THEN formatD ELSE formatDebounce
    /\ configs' = IF ~languages.nil THEN languages.map ELSE configs
    /\ runs' = [r \in DOMAIN runs |->
                    IF runs[r].pc \in {"reset", "begin", "tasks"} /\ ~languages.nil
                    THEN [runs[r] EXCEPT !.cfgs =
                            getLintConfigsForDocument(
                                normalizedFilenameFromUri(runs[r].uri),
                                heap[runs[r].f].LanguageID, languages.map, runs[r].ev)]
                    ELSE runs[r]]
    /\ UNCHANGED <<probe, now, panicked, files, heap, expect, lintTimer, timers, running,
                   calls, burst, formatTimer, ftimers, fcalls>>

\* LspHandler.UpdateConfiguration and LangHandler.UpdateConfiguration; a
\* duration of 0 is one the notification does not have (omitempty)
UpdateConfiguration(languages, lintD, formatD) ==
    /\ ~panicked
    /\ lintDebounce' = IF lintD > 0 THEN lintD ELSE lintDebounce
    /\ formatDebounce' = IF formatD > 0 THEN formatD ELSE formatDebounce
    /\ configs' = IF ~languages.nil THEN languages.map ELSE configs
    /\ UNCHANGED <<probe, now, panicked, files, heap, expect, lintTimer, timers, running,
                   calls, runs, burst, formatTimer, ftimers, fcalls>>

\* ------------------------------------------------------------- the clock
Tick ==
    /\ ~panicked
    /\ now < MaxTime
    /\ now' = now + 1
    /\ UNCHANGED <<probe, panicked, storeVars, lintVars, fmtVars>>

\* --------------------------------------------------- the lint scheduler
\* history: a call that arrives less than the debounce after the previous
\* call continues the burst of that call; any other call starts a new burst.
\* With a debounce of 0 no call is less than the debounce after another, and
\* nothing is recorded.  The field cur of a call or a timer says that it
\* belongs to the current burst: a call does when it arrived in it, a timer
\* when a call of the burst armed or reset it.
Continues(b) == b.last >= 0 /\ now - b.last < b.deb

Arrive(b, uri) ==
    IF lintDebounce = 0 THEN b
    ELSE IF Continues(b)
    THEN [b EXCEPT !.last = now, !.deb = lintDebounce,
                   !.same = b.same /\ uri = b.uri]
    ELSE [last |-> now, deb |-> lintDebounce, uri |-> uri, same |-> TRUE,
          runs |-> 0, early |-> FALSE]

\* history: a timer callback is dispatched
Dispatch(b) ==
    [b EXCEPT !.runs = IF @ < 2 THEN @ + 1 ELSE @,
              !.early = @ \/ now < b.last + b.deb]

\* a request is served by the first goroutine that is free
FirstIdle == IF calls["h1"].pc = "idle" THEN "h1" ELSE "h2"

\* ScheduleLinting, line 139: the unlocked test of h.lintTimer
SchedCheck(h, uri, eventType) ==
    /\ ~panicked
    /\ calls[h].pc = "idle"
    /\ h = FirstIdle
    /\ calls' = [x \in Handlers |->
                    IF x = h
                    THEN [pc |-> IF lintTimer # NoTimer THEN "reset" ELSE "arm",
                          uri |-> uri, ev |-> eventType, cur |-> lintDebounce > 0]
                    ELSE [calls[x] EXCEPT !.cur = @ /\ Continues(burst)]]
    /\ timers' = [t \in TimerIds |->
                    [timers[t] EXCEPT !.cur = @ /\ Continues(burst)]]
    /\ burst' = Arrive(burst, uri)
    /\ UNCHANGED <<probe, fmtVars, now, panicked, storeVars, lintTimer, lintDebounce,
                   running, runs>>

\* timer.Reset(d): the timer expires d from now, whether or not it has
\* already expired (an expired AfterFunc timer runs its function again)
TimerReset(t, d) == [t EXCEPT !.st = "armed", !.deadline = now + d]

\* ScheduleLinting, lines 140-142: h.lintTimer.Reset(h.lintDebounce) reads the
\* slot again; on a nil slot the method dereferences nil and panics
SchedReset(h) ==
    /\ ~panicked
    /\ calls[h].pc = "reset"
    /\ IF lintTimer = NoTimer
       THEN /\ panicked' = TRUE
            /\ UNCHANGED timers
       ELSE /\ timers' = [timers EXCEPT ![lintTimer] =
                               [TimerReset(@, lintDebounce) EXCEPT
                                   !.cur = @ \/ calls[h].cur]]
            /\ UNCHANGED panicked
    /\ calls' = [calls EXCEPT ![h] = IdleCall]
    /\ UNCHANGED <<probe, fmtVars, now, storeVars, lintTimer, lintDebounce, running, runs, burst>>

\* A Timer that has expired and is not in the slot can be reached by nothing:
\* its record is given back
Collect(ts, slot) ==
    [t \in TimerIds |-> IF ts[t].st = "fired" /\ slot # t THEN NoTimerRec ELSE ts[t]]

TimerIsFree(t) == timers[t].st = "unused"

\* ScheduleLinting, lines 144-192: under lintMu, time.AfterFunc and the store
\* into the slot; the callback captures uri and eventType of this call
SchedArm(h) ==
    /\ ~panicked
    /\ calls[h].pc = "arm"
    /\ \E t \in TimerIds : TimerIsFree(t)
    /\ LET t == Least({x \in TimerIds : TimerIsFree(x)}) IN
        /\ timers' = Collect([timers EXCEPT ![t] =
                                 [st |-> "armed", deadline |-> now + lintDebounce,
                                  uri |-> calls[h].uri, ev |-> calls[h].ev,
                                  cur |-> calls[h].cur]], t)
        /\ lintTimer' = t
    /\ calls' = [calls EXCEPT ![h] = IdleCall]
    /\ UNCHANGED <<probe, fmtVars, now, panicked, storeVars, lintDebounce, running, runs, burst>>

\* the runtime starts the callback of an expired timer in a goroutine of its
\* own, r (the first that is free)
TimerFire(t, r) ==
    /\ ~panicked
    /\ timers[t].st = "armed"
    /\ now >= timers[t].deadline
    /\ runs[r].pc = "free"
    /\ \A x \in RunIds : x < r => runs[x].pc # "free"
    /\ runs' = [runs EXCEPT ![r] = [FreeRun EXCEPT !.pc = "cb",
                                                !.uri = timers[t].uri,
                                                !.ev = timers[t].ev]]
    /\ timers' = Collect([timers EXCEPT ![t].st = "fired"], lintTimer)
    /\ burst' = IF timers[t].cur THEN Dispatch(burst) ELSE burst
    /\ UNCHANGED <<probe, fmtVars, now, panicked, storeVars, lintTimer, lintDebounce, running,
                   calls>>

\* callback, line 146: h.lintTimer = nil, outside the mutex
CbClear(r) ==
    /\ ~panicked
    /\ runs[r].pc = "cb"
    /\ lintTimer' = NoTimer
    /\ timers' = Collect(timers, NoTimer)
    /\ runs' = [runs EXCEPT ![r].pc = "lock"]
    /\ UNCHANGED <<probe, fmtVars, now, panicked, storeVars, lintDebounce, running, calls, burst>>

\* CbRegister without the call of the handle that is registered
CbRegisterNoCancel(r) ==
    /\ ~panicked
    /\ runs[r].pc = "lock"
    /\ runs' = [runs EXCEPT ![r].pc = "start"]
    /\ running' = [running EXCEPT ![runs[r].uri] = r]
    /\ UNCHANGED <<probe, fmtVars, now, panicked, storeVars, lintTimer, lintDebounce, timers,
                   calls, burst>>

\* callback, lines 148-156: under lintMu, cancel the handle registered for the
\* URI, make the scope of this run and register its handle
CbRegister(r) ==
    /\ ~panicked
    /\ runs[r].pc = "lock"
    /\ LET old == running[runs[r].uri] IN
        runs' = [x \in RunIds |->
                    IF x = r THEN [runs[x] EXCEPT !.pc = "start"]
                    ELSE IF x = old THEN [runs[x] EXCEPT !.cancelled = TRUE]
                    ELSE runs[x]]
    /\ running' = [running EXCEPT ![runs[r].uri] = r]
    /\ UNCHANGED <<probe, fmtVars, now, panicked, storeVars, lintTimer, lintDebounce, timers,
                   calls, burst>>

\* --------------------------------------------------------- RunAllLinters
\* RalStart that sends the reset message before it looks at the selection
RalStartClear(r) ==
    /\ ~panicked
    /\ runs[r].pc = "start"
    /\ LET f == files[runs[r].uri]
           cfgs == getLintConfigsForDocument(normalizedFilenameFromUri(runs[r].uri),
                                             heap[f].LanguageID, configs, runs[r].ev)
       IN  runs' = [runs EXCEPT ![r] =
                IF f = NoRef THEN [@ EXCEPT !.pc = "returned", !.ret = "err"]
                ELSE IF Len(cfgs) = 0
                     THEN [@ EXCEPT !.pc = "returned", !.ret = "ok",
                                    !.diags = <<[kind |-> "reset", cfg |-> 0, n |-> 0,
                                                 version |-> heap[f].Version]>>]
                ELSE [@ EXCEPT !.pc = "reset", !.f = f, !.v0 = heap[f].Version,
                               !.cfgs = cfgs]]
    /\ UNCHANGED <<probe, fmtVars, now, panicked, storeVars, lintTimer, lintDebounce, timers,
                   running, calls, burst>>

\* lines 385-394: resolve the fileRef and select the configs
RalStart(r) ==
    /\ ~panicked
    /\ runs[r].pc = "start"
    /\ LET f == files[runs[r].uri]
           cfgs == getLintConfigsForDocument(normalizedFilenameFromUri(runs[r].uri),
                                             heap[f].LanguageID, configs, runs[r].ev)
       IN  runs' = [runs EXCEPT ![r] =
                IF f = NoRef THEN [@ EXCEPT !.pc = "returned", !.ret = "err"]
                ELSE IF Len(cfgs) = 0 THEN [@ EXCEPT !.pc = "returned", !.ret = "ok"]
                ELSE [@ EXCEPT !.pc = "reset", !.f = f, !.v0 = heap[f].Version,
                               !.cfgs = cfgs]]
    /\ UNCHANGED <<probe, fmtVars, now, panicked, storeVars, lintTimer, lintDebounce, timers,
                   running, calls, burst>>

\* RalReset without the reset message
RalResetSkip(r) ==
    /\ ~panicked
    /\ runs[r].pc = "reset"
    /\ runs' = [runs EXCEPT ![r].pc = "begin"]
    /\ UNCHANGED <<probe, fmtVars, now, panicked, storeVars, lintTimer, lintDebounce, timers,
                   running, calls, burst>>

\* RalReset with the version the document had when the run resolved it
RalResetAtStart(r) ==
    /\ ~panicked
    /\ runs[r].pc = "reset"
    /\ runs' = [runs EXCEPT ![r] =
            [@ EXCEPT !.pc = "begin",
                      !.diags = <<[kind |-> "reset", cfg |-> 0, n |-> 0,
                                   version |-> runs[r].v0]>>]]
    /\ UNCHANGED <<probe, fmtVars, now, panicked, storeVars, lintTimer, lintDebounce, timers,
                   running, calls, burst>>

\* lines 396-401: the reset message, with f.Version as it is now
RalReset(r) ==
    /\ ~panicked
    /\ runs[r].pc = "reset"
    /\ runs' = [runs EXCEPT ![r] =
            [@ EXCEPT !.pc = "begin",
                      !.diags = <<[kind |-> "reset", cfg |-> 0, n |-> 0,
                                   version |-> heap[runs[r].f].Version]>>]]
    /\ UNCHANGED <<probe, fmtVars, now, panicked, storeVars, lintTimer, lintDebounce, timers,
                   running, calls, burst>>

\* lines 403-426: the progress begin (the token is the run's), then one
\* goroutine per config
RalBegin(r) ==
    /\ ~panicked
    /\ runs[r].pc = "begin"
    /\ runs' = [runs EXCEPT ![r] =
            [@ EXCEPT !.pc = "tasks",
                      !.prog = <<[kind |-> "begin", token |-> r]>>,
                      !.tasks = [i \in 1..Len(runs[r].cfgs) |-> "new"]]]
    /\ UNCHANGED <<probe, fmtVars, now, panicked, storeVars, lintTimer, lintDebounce, timers,
                   running, calls, burst>>

\* buildExecCmd: exec.CommandContext(ctx, shell, shellFlag, command) with Dir,
\* Env and Stdin set; SysProcAttr and Cancel are left as os/exec makes them,
\* so the shell stays in the process group of the server and a cancelled
\* context kills the shell process alone (cmd.Process.Kill)
buildExecCmd == [Setpgid |-> FALSE, Cancel |-> "Process.Kill"]

\* makeCmdKillable (non-Windows): the command gets a process group of its
\* own and is cancelled by SIGKILL to the group; no function calls it
makeCmdKillable(cmd) == [cmd EXCEPT !.Setpgid = TRUE, !.Cancel = "KillGroup"]

\* the states of a task: "new", "exec" (the shell of its command runs),
\* "child" (the shell and a process it spawned run), "orphan" (the shell has
\* been killed, the process it spawned runs and holds the output pipe),
\* "killed" (the shell has been killed and nothing of the command runs),
\* "done"
Started == {"exec", "child", "orphan", "killed"}

\* lines 411-413, 438-443: the task starts its command
TaskStart(r, i) ==
    /\ ~panicked
    /\ runs[r].pc = "tasks"
    /\ i \in DOMAIN runs[r].tasks
    /\ runs[r].tasks[i] = "new"
    /\ runs' = [runs EXCEPT ![r].tasks[i] = "exec"]
    /\ UNCHANGED <<probe, fmtVars, now, panicked, storeVars, lintTimer, lintDebounce, timers,
                   running, calls, burst>>

\* the shell of a command spawns the linter and waits for it
Spawn(r, i) ==
    /\ ~panicked
    /\ runs[r].pc = "tasks"
    /\ i \in DOMAIN runs[r].tasks
    /\ runs[r].tasks[i] = "exec"
    /\ runs' = [runs EXCEPT ![r].tasks[i] = "child"]
    /\ UNCHANGED <<probe, fmtVars, now, panicked, storeVars, lintTimer, lintDebounce, timers,
                   running, calls, burst>>

\* the process a shell spawned exits on its own
ChildExit(r, i) ==
    /\ ~panicked
    /\ runs[r].pc = "tasks"
    /\ i \in DOMAIN runs[r].tasks
    /\ runs[r].tasks[i] \in {"child", "orphan"}
    /\ runs' = [runs EXCEPT ![r].tasks[i] = IF @ = "child" THEN "exec" ELSE "killed"]
    /\ UNCHANGED <<probe, fmtVars, now, panicked, storeVars, lintTimer, lintDebounce, timers,
                   running, calls, burst>>

\* os/exec on a cancelled context: cmd.Cancel is called once the command has
\* started; Process.Kill ends the shell, SIGKILL to the group ends the shell
\* and what it spawned
CmdCancel(r, i) ==
    /\ ~panicked
    /\ runs[r].pc = "tasks"
    /\ runs[r].cancelled
    /\ i \in DOMAIN runs[r].tasks
    /\ runs[r].tasks[i] \in {"exec", "child"}
    /\ runs' = [runs EXCEPT ![r].tasks[i] =
                    IF buildExecCmd.Cancel = "KillGroup" /\ buildExecCmd.Setpgid
                    THEN "killed"
                    ELSE IF @ = "child" THEN "orphan" ELSE "killed"]
    /\ UNCHANGED <<probe, fmtVars, now, panicked, storeVars, lintTimer, lintDebounce, timers,
                   running, calls, burst>>

\* cmd.CombinedOutput returns when the shell has ended and the output pipe
\* is closed by every process that holds it: a shell that runs ends with
\* some exit status, a killed one with -1
Ended(task, exit) == task = "exec" \/ (task = "killed" /\ exit = -1)

ExitCodes == {0, 1, -1, unknownExitCode}
EntryCounts == {0, 1}

\* TaskFinish where a task that fails ends its siblings with it
TaskFinishAbort(r, i, exit, n) ==
    /\ ~panicked
    /\ runs[r].pc = "tasks"
    /\ i \in DOMAIN runs[r].tasks
    /\ Ended(runs[r].tasks[i], exit)
    /\ LET res == lintDocument(runs[r].cfgs[i], exit, n) IN
        runs' = [runs EXCEPT ![r] =
            IF res.err
            THEN [@ EXCEPT !.tasks = [j \in DOMAIN @ |-> "done"],
                           !.errs = @ \cup {i}]
            ELSE [@ EXCEPT !.tasks[i] = "done",
                           !.diags = Append(@, [kind |-> "cfg", cfg |-> i,
                                                n |-> res.n,
                                                version |-> heap[runs[r].f].Version])]]
    /\ UNCHANGED <<probe, fmtVars, now, panicked, storeVars, lintTimer, lintDebounce, timers,
                   running, calls, burst>>

\* lines 413-424: the command ends with some exit status and some output; the
\* task sends its error, or its diagnostics with f.Version as it is now
TaskFinish(r, i, exit, n) ==
    /\ ~panicked
    /\ runs[r].pc = "tasks"
    /\ i \in DOMAIN runs[r].tasks
    /\ Ended(runs[r].tasks[i], exit)
    /\ LET res == lintDocument(runs[r].cfgs[i], exit, n) IN
        runs' = [runs EXCEPT ![r] =
            IF res.err
            THEN [@ EXCEPT !.tasks[i] = "done", !.errs = @ \cup {i}]
            ELSE [@ EXCEPT !.tasks[i] = "done",
                           !.diags = Append(@, [kind |-> "cfg", cfg |-> i,
                                                n |-> res.n,
                                                version |-> heap[runs[r].f].Version])]]
    /\ UNCHANGED <<probe, fmtVars, now, panicked, storeVars, lintTimer, lintDebounce, timers,
                   running, calls, burst>>

\* RalEnd without wg.Wait
RalEndNoWait(r) ==
    /\ ~panicked
    /\ runs[r].pc = "tasks"
    /\ runs' = [runs EXCEPT ![r] =
            [@ EXCEPT !.pc = "returned", !.ret = "ok",
                      !.prog = Append(@, [kind |-> "end", token |-> r])]]
    /\ UNCHANGED <<probe, fmtVars, now, panicked, storeVars, lintTimer, lintDebounce, timers,
                   running, calls, burst>>

\* lines 428-435: wg.Wait, the progress end, return nil
RalEnd(r) ==
    /\ ~panicked
    /\ runs[r].pc = "tasks"
    /\ \A i \in DOMAIN runs[r].tasks : runs[r].tasks[i] = "done"
    /\ runs' = [runs EXCEPT ![r] =
            [@ EXCEPT !.pc = "returned", !.ret = "ok",
                      !.prog = Append(@, [kind |-> "end", token |-> r])]]
    /\ UNCHANGED <<probe, fmtVars, now, panicked, storeVars, lintTimer, lintDebounce, timers,
                   running, calls, burst>>

\* callback, lines 158-164 and 187: RunAllLinters has returned and the error
\* it returned is reported; the deferred close(progress), close(errors) and
\* close(diagnostics) run, and the three goroutines that range over the
\* channels leave their loops
CbClose(r) ==
    /\ ~panicked
    /\ runs[r].pc = "returned"
    /\ runs' = [runs EXCEPT ![r].pc = "closed"]
    /\ UNCHANGED <<probe, fmtVars, now, panicked, storeVars, lintTimer, lintDebounce, timers,
                   running, calls, burst>>

\* ------------------------------------------------------------ formatting
FormatSelected(fname, cfg) ==
    /\ cfg.FormatCommand # ""
    /\ ~(matchRootPath(fname, cfg.RootMarkers) = NoPath /\ cfg.RequireMarker)

getFormatConfigsForDocument(fname, langId, allConfigs) ==
    SelectSeq(getAllConfigsForLang(allConfigs, langId),
              LAMBDA cfg : FormatSelected(fname, cfg))

\* strings.ReplaceAll(out, carriageReturn, "")
StripCR(text) == SelectSeq(text, LAMBDA c : c # "\r")

\* strings.SplitAfter(text, "\n"), without the empty string after a final "\n"
RECURSIVE SplitLines(_)
SplitLines(text) ==
    IF text = <<>> THEN <<>>
    ELSE LET nl == {i \in 1..Len(text) : text[i] = "\n"} IN
         IF nl = {} THEN <<text>>
         ELSE <<SubSeq(text, 1, Least(nl))>>
              \o SplitLines(SubSeq(text, Least(nl) + 1, Len(text)))

RECURSIVE JoinLines(_)
JoinLines(ls) == IF ls = <<>> THEN <<>> ELSE Head(ls) \o JoinLines(Tail(ls))

\* the length of a longest common subsequence of two lists of lines
RECURSIVE Lcs(_, _)
Lcs(a, b) ==
    IF a = <<>> \/ b = <<>> THEN 0
    ELSE IF Head(a) = Head(b) THEN 1 + Lcs(Tail(a), Tail(b))
    ELSE Max(Lcs(Tail(a), b), Lcs(a, Tail(b)))

\* the script that deletes every line of a and inserts every line of b
ScriptReplace(a, b) == [i \in 1..Len(a) + Len(b) |-> IF i <= Len(a) THEN "-" ELSE "+"]

\* a minimal line diff of a and b: "=" keeps a line, "-" deletes a line of a,
\* "+" inserts a line of b; of two scripts of the same length the one that
\* deletes first is taken
RECURSIVE Script(_, _)
Script(a, b) ==
    IF a = <<>> THEN [i \in 1..Len(b) |-> "+"]
    ELSE IF b = <<>> THEN [i \in 1..Len(a) |-> "-"]
    ELSE IF Head(a) = Head(b) THEN <<"=">> \o Script(Tail(a), Tail(b))
    ELSE IF Lcs(Tail(a), b) >= Lcs(a, Tail(b)) THEN <<"-">> \o Script(Tail(a), b)
    ELSE <<"+">> \o Script(a, Tail(b))

NoHunk == [start |-> -1, end |-> -1, newText |-> <<>>]

\* the hunks of a script: each run of "-" and "+" between kept lines is one
\* edit (a deletion next to an insertion is one replacement); i lines of the
\* text before are consumed, al are the lines of the text after not yet
\* consumed, cur is the hunk being collected
RECURSIVE Hunks(_, _, _, _)
Hunks(ops, al, i, cur) ==
    LET done == IF cur = NoHunk THEN <<>> ELSE <<cur>>
        open == IF cur = NoHunk THEN [start |-> i, end |-> i, newText |-> <<>>]
                ELSE cur
    IN  IF ops = <<>> THEN done
        ELSE IF Head(ops) = "=" THEN done \o Hunks(Tail(ops), Tail(al), i + 1, NoHunk)
        ELSE IF Head(ops) = "-"
             THEN Hunks(Tail(ops), al, i + 1, [open EXCEPT !.end = i + 1])
        ELSE Hunks(Tail(ops), Tail(al), i,
                   [open EXCEPT !.newText = @ \o Head(al)])

\* an edit that is spread over the line before it
WidenTwice(bl, e) ==
    IF (e.start = e.end \/ e.newText = <<>>) /\ e.start > 0 /\ e.end < Len(bl)
    THEN [e EXCEPT !.start = @ - 2, !.newText = bl[e.start] \o @]
    ELSE e

\* the results TestComputeEdits expects of an insertion and of a deletion
\* between two kept lines: the edit replaces the line before the hunk as
\* well, by itself and the inserted lines; hunks at the start and at the end
\* of the text, and replacements, are left as they are
Widen(bl, e) ==
    IF (e.start = e.end \/ e.newText = <<>>) /\ e.start > 0 /\ e.end < Len(bl)
    THEN [e EXCEPT !.start = @ - 1, !.newText = bl[e.start] \o @]
    ELSE e

\* ComputeEdits: line-granular edits that turn before into after, Range.Start
\* and Range.End at character 0 of lines start and end
ComputeEdits(before, after) ==
    LET bl == SplitLines(before)
        al == SplitLines(after)
        hs == Hunks(Script(bl, al), al, 0, NoHunk)
    IN  [k \in 1..Len(hs) |-> Widen(bl, hs[k])]

\* strings.SplitAfter(text, "\n"): the text cut after each "\n"; the last
\* element is what follows the last "\n", the empty string included
RECURSIVE SplitAfter(_)
SplitAfter(text) ==
    LET nl == {i \in 1..Len(text) : text[i] = "\n"} IN
    IF nl = {} THEN <<text>>
    ELSE <<SubSeq(text, 1, Least(nl))>>
         \o SplitAfter(SubSeq(text, Least(nl) + 1, Len(text)))

\* applyEdits, lines 340-351: the loop over the edits, lastLine lines of
\* the text consumed; Range.Start.Line is start, Range.End.Line is end
RECURSIVE applyEditsFrom(_, _, _)
applyEditsFrom(lines, edits, lastLine) ==
    IF edits = <<>> THEN <<>>
    ELSE LET e == Head(edits)
             upto == IF e.start < Len(lines) THEN e.start ELSE Len(lines)
         IN  JoinLines(SubSeq(lines, lastLine + 1, upto)) \o e.newText
             \o applyEditsFrom(lines, Tail(edits), e.end)

\* applyEdits that stops after the last edit
applyEditsNoRest(text, edits) ==
    applyEditsFrom(SplitAfter(text), edits, 0)

\* applyEdits: the edits applied to the text in order, line-wise, then the
\* lines after the last edit (lines 353-356)
applyEdits(text, edits) ==
    LET lines == SplitAfter(text)
        lastLine == IF edits = <<>> THEN 0 ELSE edits[Len(edits)].end
    IN  applyEditsFrom(lines, edits, 0)
        \o JoinLines(SubSeq(lines, lastLine + 1, Len(lines)))

\* ------------------------------------------------------ command templates
\* A command, a path and a placeholder are strings: sequences of characters.
\* A run of characters that has none of $ { } : = ! ( ) . / and no white
\* space in it (INPUT, a flag, a key) is written as one element.

\* the first index from p on at which s has a character of chars, or 0
FirstAt(s, p, chars) ==
    LET at == {i \in p..Len(s) : s[i] \in chars} IN
    IF at = {} THEN 0 ELSE Least(at)

\* s has pat at index p
HasAt(s, p, pat) ==
    /\ p + Len(pat) - 1 <= Len(s)
    /\ SubSeq(s, p, p + Len(pat) - 1) = pat

\* strings.ReplaceAll(s, old, new), from index p on
RECURSIVE ReplaceAllFrom(_, _, _, _)
ReplaceAllFrom(s, old, new, p) ==
    IF p > Len(s) THEN <<>>
    ELSE IF HasAt(s, p, old) THEN new \o ReplaceAllFrom(s, old, new, p + Len(old))
    ELSE <<s[p]>> \o ReplaceAllFrom(s, old, new, p + 1)

ReplaceAll(s, old, new) == ReplaceAllFrom(s, old, new, 1)

WhiteSpace == {" ", "\t", "\n", "\r"}

\* strings.TrimSpace
RECURSIVE TrimLeft(_)
TrimLeft(s) == IF s # <<>> /\ Head(s) \in WhiteSpace THEN TrimLeft(Tail(s)) ELSE s

RECURSIVE TrimRight(_)
TrimRight(s) ==
    IF s # <<>> /\ s[Len(s)] \in WhiteSpace THEN TrimRight(SubSeq(s, 1, Len(s) - 1))
    ELSE s

TrimSpace(s) == TrimRight(TrimLeft(s))

inputPlaceholder == <<"$", "{", "INPUT", "}">>
fileextPlaceholder == <<"$", "{", "FILEEXT", "}">>
filenamePlaceholder == <<"$", "{", "FILENAME", "}">>
rootPlaceholder == <<"$", "{", "ROOT", "}">>

\* filepath.Ext: from the last dot of the last element of the path on
Ext(fname) ==
    LET dots == {i \in 1..Len(fname) :
                    fname[i] = "." /\ \A j \in i..Len(fname) : fname[j] # "/"}
    IN  IF dots = {} THEN <<>>
        ELSE SubSeq(fname, CHOOSE i \in dots : \A j \in dots : j <= i, Len(fname))

\* strings.TrimPrefix
TrimPrefix(s, prefix) ==
    IF HasAt(s, 1, prefix) THEN SubSeq(s, Len(prefix) + 1, Len(s)) ELSE s

escapeBrackets(path) ==
    ReplaceAll(ReplaceAll(path, <<"(">>, <<"\\", "(">>), <<")">>, <<"\\", ")">>)

\* replaceMagicStrings; filepath.FromSlash leaves a path as it is where the
\* separator is the slash
replaceMagicStrings(command, fname, rootPath) ==
    LET ext == TrimPrefix(Ext(fname), <<".">>)
        c1 == ReplaceAll(command, inputPlaceholder, escapeBrackets(fname))
        c2 == ReplaceAll(c1, fileextPlaceholder, ext)
        c3 == ReplaceAll(c2, filenamePlaceholder, escapeBrackets(fname))
    IN  ReplaceAll(c3, rootPlaceholder, escapeBrackets(rootPath))

\* the value of an option: a bool, or a value of another type with the text
\* fmt prints for it (%v)
BoolValue(b) == [bool |-> TRUE, b |-> b]
OtherValue(text) == [bool |-> FALSE, text |-> text]

\* reColon (c is ":") and reEquals (c is "="), matched at index p of s:
\* "${", one or more characters other than c and "}", c, one or more
\* characters other than "}", "}"
FindSubmatchAt(s, p, c) ==
    LET q == FirstAt(s, p + 2, {c, "}"})
        e == IF q = 0 THEN 0 ELSE FirstAt(s, q + 1, {"}"})
    IN  IF HasAt(s, p, <<"$", "{">>) /\ q > p + 2 /\ s[q] = c /\ e > q + 1
        THEN [ok |-> TRUE, end |-> e, flag |-> SubSeq(s, p + 2, q - 1),
              opt |-> SubSeq(s, q + 1, e - 1)]
        ELSE [ok |-> FALSE, end |-> 0, flag |-> <<>>, opt |-> <<>>]

\* resolveOptionsPlaceholder that takes no notice of "!"
resolveOptionsPlaceholderPlain(c, match, options, sep) ==
    LET parts == FindSubmatchAt(match, 1, c)
        key == TrimPrefix(parts.opt, <<"!">>)
    IN  IF key \notin DOMAIN options THEN match
        ELSE IF options[key].bool
             THEN (IF options[key].b THEN parts.flag ELSE <<>>)
        ELSE parts.flag \o sep \o options[key].text

\* resolveOptionsPlaceholder(re, match, options, sep)
resolveOptionsPlaceholder(c, match, options, sep) ==
    LET parts == FindSubmatchAt(match, 1, c)
        neg == HasAt(parts.opt, 1, <<"!">>)
        key == TrimPrefix(parts.opt, <<"!">>)
    IN  IF key \notin DOMAIN options THEN match
        ELSE IF options[key].bool
             THEN (IF options[key].b = ~neg THEN parts.flag ELSE <<>>)
        ELSE IF neg THEN <<>>
        ELSE parts.flag \o sep \o options[key].text

\* re.ReplaceAllStringFunc(command, ...) with resolveOptionsPlaceholder, from
\* index p on: the matches are taken from the left and do not overlap
RECURSIVE ReplaceAllPlaceholders(_, _, _, _, _)
ReplaceAllPlaceholders(s, p, c, options, sep) ==
    IF p > Len(s) THEN <<>>
    ELSE LET m == FindSubmatchAt(s, p, c) IN
         IF m.ok
         THEN resolveOptionsPlaceholder(c, SubSeq(s, p, m.end), options, sep)
              \o ReplaceAllPlaceholders(s, m.end + 1, c, options, sep)
         ELSE <<s[p]>> \o ReplaceAllPlaceholders(s, p + 1, c, options, sep)

\* applyOptionsPlaceholders: the ":" placeholders, then the "=" placeholders,
\* then strings.TrimSpace
applyOptionsPlaceholders(command, options) ==
    LET colon == ReplaceAllPlaceholders(command, 1, ":", options, <<" ">>)
    IN  TrimSpace(ReplaceAllPlaceholders(colon, 1, "=", options, <<"=">>))

\* strings.Split(text, "\n")
RECURSIVE Split(_)
Split(text) ==
    LET nl == FirstAt(text, 1, {"\n"}) IN
    IF nl = 0 THEN <<text>>
    ELSE <<SubSeq(text, 1, nl - 1)>> \o Split(SubSeq(text, nl + 1, Len(text)))

Min(a, b) == IF a <= b THEN a ELSE b

\* the sum of len(lines[i]) + 1 over the first row lines
RECURSIVE LinesLength(_, _)
LinesLength(lines, row) ==
    IF row = 0 THEN 0 ELSE Len(lines[row]) + 1 + LinesLength(lines, row - 1)

\* convertRowColToIndex; lines[row] of the code is lines[row + 1] here
convertRowColToIndex(lines, row, col) ==
    LET r == Min(Max(row, 0), Len(lines) - 1)
        c == Min(Max(col, 0), Len(lines[r + 1]))
    IN  LinesLength(lines, r) + c

NoRange == [nil |-> TRUE]
RangeOf(sl, sc, el, ec) ==
    [nil |-> FALSE, Start |-> [Line |-> sl, Character |-> sc],
     End |-> [Line |-> el, Character |-> ec]]

\* applyRangePlaceholders
applyRangePlaceholders(command, rng, text) ==
    LET lines == Split(text)
        charStart == convertRowColToIndex(lines, rng.Start.Line, rng.Start.Character)
        charEnd == convertRowColToIndex(lines, rng.End.Line, rng.End.Character)
        rangeOptions ==
            (<<"charStart">> :> OtherValue(<<ToString(charStart)>>))
            @@ (<<"charEnd">> :> OtherValue(<<ToString(charEnd)>>))
            @@ (<<"rowStart">> :> OtherValue(<<ToString(rng.Start.Line)>>))
            @@ (<<"colStart">> :> OtherValue(<<ToString(rng.Start.Character)>>))
            @@ (<<"rowEnd">> :> OtherValue(<<ToString(rng.End.Line)>>))
            @@ (<<"colEnd">> :> OtherValue(<<ToString(rng.End.Character)>>))
    IN  applyOptionsPlaceholders(command, rangeOptions)

\* reUnfilledPlaceholders.ReplaceAllString(command, ""), from index p on:
\* "${", characters other than "}", "}"
RECURSIVE StripUnfilled(_, _)
StripUnfilled(s, p) ==
    IF p > Len(s) THEN <<>>
    ELSE LET e == FirstAt(s, p + 2, {"}"}) IN
         IF HasAt(s, p, <<"$", "{">>) /\ e # 0 THEN StripUnfilled(s, e + 1)
         ELSE <<s[p]>> \o StripUnfilled(s, p + 1)

\* buildFormatCommandString
buildFormatCommandString(rootPath, filename, textToFormat, options, rng, command) ==
    LET magic == replaceMagicStrings(command, filename, rootPath)
        opts == applyOptionsPlaceholders(magic, options)
        ranged == IF ~rng.nil THEN applyRangePlaceholders(opts, rng, textToFormat)
                  ELSE opts
    IN  StripUnfilled(ranged, 1)

IdleFcall == [pc |-> "idle", uri |-> "u1", saw |-> FALSE, ran |-> FALSE,
              f |-> NoRef, cfgs |-> <<>>, k |-> 0,
              orig |-> <<>>, cur |-> <<>>, formatted |-> FALSE, errors |-> <<>>,
              prog |-> <<>>, log |-> <<>>, edits |-> <<>>, err |-> "none"]
NoFTimer == [armed |-> FALSE, deadline |-> 0]

FFree(h) == fcalls[h].pc \in {"idle", "done"}
FirstFree == IF FFree("h1") THEN "h1" ELSE "h2"

\* Formatting, lines 111-114: the unlocked test of h.formatTimer; with a timer
\* in the slot the request returns an empty list at once
FmtCheck(h, uri) ==
    /\ ~panicked
    /\ FFree(h)
    /\ h = FirstFree
    /\ fcalls' = [fcalls EXCEPT ![h] =
            IF formatTimer # NoTimer
            THEN [IdleFcall EXCEPT !.pc = "done", !.uri = uri, !.saw = TRUE]
            ELSE [IdleFcall EXCEPT !.pc = "arm", !.uri = uri]]
    /\ UNCHANGED <<probe, now, panicked, storeVars, lintVars, formatTimer,
                   formatDebounce, ftimers>>

\* Formatting, lines 116-122: under formatMu, time.AfterFunc and the store
\* into the slot
FmtArm(h) ==
    /\ ~panicked
    /\ fcalls[h].pc = "arm"
    /\ \E t \in TimerIds : ~ftimers[t].armed
    /\ LET t == Least({x \in TimerIds : ~ftimers[x].armed}) IN
        /\ ftimers' = [ftimers EXCEPT ![t] =
                          [armed |-> TRUE, deadline |-> now + formatDebounce]]
        /\ formatTimer' = t
        /\ fcalls' = [fcalls EXCEPT ![h].pc = "start"]
    /\ UNCHANGED <<probe, now, panicked, storeVars, lintVars, formatDebounce>>

\* FmtTimerFire with a callback that leaves the slot as it is
FmtTimerFireKeep(t) ==
    /\ ~panicked
    /\ ftimers[t].armed
    /\ now >= ftimers[t].deadline
    /\ ftimers' = [ftimers EXCEPT ![t] = NoFTimer]
    /\ UNCHANGED <<probe, now, panicked, storeVars, lintVars, formatDebounce, fcalls,
                   formatTimer>>

\* the callback of an expired format timer, lines 118-120: under formatMu,
\* h.formatTimer = nil
FmtTimerFire(t) ==
    /\ ~panicked
    /\ ftimers[t].armed
    /\ now >= ftimers[t].deadline
    /\ ftimers' = [ftimers EXCEPT ![t] = NoFTimer]
    /\ formatTimer' = NoTimer
    /\ UNCHANGED <<probe, now, panicked, storeVars, lintVars, formatDebounce, fcalls>>

\* RunAllFormatters, lines 26-38: resolve the fileRef, select the configs
RafStart(h) ==
    /\ ~panicked
    /\ fcalls[h].pc = "start"
    /\ LET f == files[fcalls[h].uri]
           cfgs == getFormatConfigsForDocument(
                       normalizedFilenameFromUri(fcalls[h].uri),
                       heap[f].LanguageID, configs)
       IN  fcalls' = [fcalls EXCEPT ![h] =
                IF f = NoRef
                THEN [@ EXCEPT !.pc = "done", !.ran = TRUE, !.err = "notfound"]
                ELSE IF Len(cfgs) = 0
                THEN [@ EXCEPT !.pc = "done", !.ran = TRUE, !.f = f]
                ELSE [@ EXCEPT !.pc = "begin", !.ran = TRUE, !.f = f,
                               !.cfgs = cfgs]]
    /\ UNCHANGED <<probe, now, panicked, storeVars, lintVars, formatTimer,
                   formatDebounce, ftimers>>

\* lines 40-50: the progress begin; originalText and formattedText
RafBegin(h) ==
    /\ ~panicked
    /\ fcalls[h].pc = "begin"
    /\ fcalls' = [fcalls EXCEPT ![h] =
            [@ EXCEPT !.pc = "loop", !.k = 1,
                      !.prog = <<[kind |-> "begin", token |-> h]>>,
                      !.orig = heap[fcalls[h].f].Text,
                      !.cur = heap[fcalls[h].f].Text]]
    /\ UNCHANGED <<probe, now, panicked, storeVars, lintVars, formatTimer,
                   formatDebounce, ftimers>>

\* what a format command may write for a given stdin
FmtOutputs(stdin) == {stdin, stdin \o <<"b", "\n">>, stdin \o <<"\r", "\n">>}

\* RafFormat where formattedText stays the original text
RafFormatNoThread(h, ok, out) ==
    /\ ~panicked
    /\ fcalls[h].pc = "loop"
    /\ fcalls[h].k <= Len(fcalls[h].cfgs)
    /\ out \in FmtOutputs(fcalls[h].cur)
    /\ fcalls' = [fcalls EXCEPT ![h] =
            IF ok
            THEN [@ EXCEPT !.k = @ + 1, !.formatted = TRUE,
                           !.log = Append(@, [stdin |-> fcalls[h].cur,
                                              ok |-> TRUE, out |-> out])]
            ELSE [@ EXCEPT !.k = @ + 1, !.errors = Append(@, fcalls[h].k),
                           !.log = Append(@, [stdin |-> fcalls[h].cur,
                                              ok |-> FALSE, out |-> <<>>])]]
    /\ UNCHANGED <<probe, now, panicked, storeVars, lintVars, formatTimer,
                   formatDebounce, ftimers>>

\* lines 51-63 and formatDocument: the k-th command runs on formattedText; it
\* exits non-zero (ok = FALSE), or zero with output out
RafFormat(h, ok, out) ==
    /\ ~panicked
    /\ fcalls[h].pc = "loop"
    /\ fcalls[h].k <= Len(fcalls[h].cfgs)
    /\ out \in FmtOutputs(fcalls[h].cur)
    /\ fcalls' = [fcalls EXCEPT ![h] =
            IF ok
            THEN [@ EXCEPT !.k = @ + 1, !.formatted = TRUE, !.cur = StripCR(out),
                           !.log = Append(@, [stdin |-> fcalls[h].cur,
                                              ok |-> TRUE, out |-> out])]
            ELSE [@ EXCEPT !.k = @ + 1, !.errors = Append(@, fcalls[h].k),
                           !.log = Append(@, [stdin |-> fcalls[h].cur,
                                              ok |-> FALSE, out |-> <<>>])]]
    /\ UNCHANGED <<probe, now, panicked, storeVars, lintVars, formatTimer,
                   formatDebounce, ftimers>>

\* RafFinish that fails as soon as one formatter has failed
RafFinishStrict(h) ==
    /\ ~panicked
    /\ fcalls[h].pc = "loop"
    /\ fcalls[h].k > Len(fcalls[h].cfgs)
    /\ fcalls' = [fcalls EXCEPT ![h] =
            IF fcalls[h].errors # <<>>
            THEN [@ EXCEPT !.pc = "done", !.err = "allfailed"]
            ELSE [@ EXCEPT !.pc = "done",
                           !.prog = Append(@, [kind |-> "end", token |-> h]),
                           !.edits = ComputeEdits(fcalls[h].orig, fcalls[h].cur)]]
    /\ UNCHANGED <<probe, now, panicked, storeVars, lintVars, formatTimer,
                   formatDebounce, ftimers>>

\* lines 65-76: the joined error, or the progress end and the edits
RafFinish(h) ==
    /\ ~panicked
    /\ fcalls[h].pc = "loop"
    /\ fcalls[h].k > Len(fcalls[h].cfgs)
    /\ fcalls' = [fcalls EXCEPT ![h] =
            IF ~fcalls[h].formatted
            THEN [@ EXCEPT !.pc = "done", !.err = "allfailed"]
            ELSE [@ EXCEPT !.pc = "done",
                           !.prog = Append(@, [kind |-> "end", token |-> h]),
                           !.edits = ComputeEdits(fcalls[h].orig, fcalls[h].cur)]]
    /\ UNCHANGED <<probe, now, panicked, storeVars, lintVars, formatTimer,
                   formatDebounce, ftimers>>

\* ------------------------------------------------- the functions alone
\* Each function of the pipelines that depends on its arguments only is
\* applied to arguments drawn from a finite set; probe records the call.
serverVars == <<now, panicked, storeVars, lintVars, fmtVars>>

Flags == {"unset", "true", "false"}

\* one lint config under the language id "vim", with any three event flags
GateTables ==
    {("vim" :> <<Language("lint", "", FALSE, <<>>, o, c, s, TRUE)>>) :
        o \in Flags, c \in Flags, s \in Flags}

\* configs told apart by their commands: K1 and K3 lint on every event, K2
\* on every event but save, K4 has no lint command
K1 == Language("l1", "f1", FALSE, <<>>, "unset", "unset", "unset", TRUE)
K2 == Language("l2", "", FALSE, <<>>, "unset", "unset", "false", TRUE)
K3 == Language("l3", "f3", FALSE, <<>>, "unset", "unset", "unset", TRUE)
K4 == Language("", "f4", FALSE, <<>>, "unset", "unset", "unset", TRUE)

MaxList == 2        \* configs under one key of a probed table

Lists(S) == UNION {[1..n -> S] : n \in 0..MaxList}

\* tables with entries for "go", for the wildcard, or for both
OrderTables ==
    {("go" :> l) @@ (Wildcard :> w) : l \in Lists({K1, K2, K4}), w \in Lists({K2, K3})}
    \cup {("go" :> l) : l \in Lists({K1, K2, K4})}
    \cup {(Wildcard :> w) : w \in Lists({K2, K3})}

\* files on the disk and off it, and root markers of either kind
Fnames == {<<"proj", "src", "b.go">>, <<"proj", "a.go">>, <<"tmp", "c.go">>,
           <<"gone", "x.go">>, <<"top.go">>}
Markers == {Marker(p, d) : p \in {".git", "go.mod", "build", "Makefile", "*"},
                           d \in BOOLEAN}

\* a config with both commands, with any markers, requiring one or not
MarkerConfigs ==
    {Language("lint", "fmt", req, m, "unset", "unset", "unset", TRUE) :
        req \in BOOLEAN, m \in Lists(Markers)}

\* a call that has not been made yet
Call(fn, in) == [fn |-> fn, in |-> in, done |-> FALSE, out |-> <<>>]

\* the result of the call in probe
Return(out) == probe' = [probe EXCEPT !.done = TRUE, !.out = out]

Pending(fn) == probe.fn = fn /\ ~probe.done

CallGetAllConfigsForLang ==
    /\ Pending("getAllConfigsForLang")
    /\ Return(getAllConfigsForLang(probe.in.allConfigs, probe.in.langId))
    /\ UNCHANGED serverVars

CallGetLintConfigsForDocument ==
    /\ Pending("getLintConfigsForDocument")
    /\ Return(getLintConfigsForDocument(probe.in.fname, probe.in.langId,
                                        probe.in.allConfigs, probe.in.eventType))
    /\ UNCHANGED serverVars

CallGetFormatConfigsForDocument ==
    /\ Pending("getFormatConfigsForDocument")
    /\ Return(getFormatConfigsForDocument(probe.in.fname, probe.in.langId,
                                          probe.in.allConfigs))
    /\ UNCHANGED serverVars

CallFindRootPath ==
    /\ Pending("findRootPath")
    /\ Return(findRootPath(probe.in.fname, probe.in.lang))
    /\ UNCHANGED serverVars

\* the calls that look for root markers
MarkerCalls ==
    \E f \in Fnames, c \in MarkerConfigs :
        \/ probe = Call("getLintConfigsForDocument",
                        [fname |-> f, langId |-> "go",
                         allConfigs |-> ("go" :> <<c>>), eventType |-> "change"])
        \/ probe = Call("getFormatConfigsForDocument",
                        [fname |-> f, langId |-> "go",
                         allConfigs |-> ("go" :> <<c>>)])
        \/ probe = Call("findRootPath", [fname |-> f, lang |-> c])

CallRunLintCommand ==
    /\ Pending("runLintCommand")
    /\ Return(runLintCommand(probe.in.exit, probe.in.config))
    /\ UNCHANGED serverVars

CallLintDocument ==
    /\ Pending("lintDocument")
    /\ Return(lintDocument(probe.in.config, probe.in.exit, probe.in.n))
    /\ UNCHANGED serverVars

\* exit statuses of a lint command: 0, positive codes, -1 (killed), and an
\* error that carries no exit code
ProbeExits == {0, 1, 2, 255, -1, unknownExitCode}

\* the calls that run a lint command, with n entries for the document in
\* its output
ExitCalls ==
    \E x \in ProbeExits, c \in {K1, CfgB} :
        \/ probe = Call("runLintCommand", [exit |-> x, config |-> c])
        \/ \E n \in 0..MaxList :
                probe = Call("lintDocument", [config |-> c, exit |-> x, n |-> n])

CallEntryIsForDocument ==
    /\ Pending("entryIsForDocument")
    /\ Return(entryIsForDocument(probe.in.rootPath, probe.in.f, probe.in.config,
                                 probe.in.entryFilename))
    /\ UNCHANGED serverVars

MaxPath == 3        \* elements of the filename of a probed entry

PathNames == {"proj", "src", "b.go", "stdin", "-", "<text>", "<stdin>", ".", ".."}

\* the fileRef of a document with this path
DocAt(fname) ==
    [NormalizedFilename |-> fname,
     Uri |-> ParseLocalFileToURI(Filename(TRUE, fname))]

\* the entries a linter reports for a document: any filename of up to
\* MaxPath elements, absolute or relative, under either root
FilenameCalls ==
    \E r \in {<<"proj">>, <<"srv">>},
       d \in {<<"proj", "src", "b.go">>, <<"proj", "stdin">>},
       st \in BOOLEAN, a \in BOOLEAN, k \in 0..MaxPath :
        \E n \in [1..k -> PathNames] :
            probe = Call("entryIsForDocument",
                         [rootPath |-> r, f |-> DocAt(d),
                          config |-> [LintStdin |-> st],
                          entryFilename |-> Filename(a, n)])

CallGetSeverity ==
    /\ Pending("getSeverity")
    /\ Return(getSeverity(probe.in.typ, probe.in.categoryMap,
                          probe.in.defaultSeverity))
    /\ UNCHANGED serverVars

CallParseEfmEntryToDiagnostic ==
    /\ Pending("parseEfmEntryToDiagnostic")
    /\ Return(parseEfmEntryToDiagnostic(probe.in.entry, probe.in.config,
                                        probe.in.wordLen))
    /\ UNCHANGED serverVars

\* entry types: the letters of the four severities, another letter, and the
\* zero rune of an entry without type
EntryTypes == {"E", "e", "W", "w", "I", "i", "N", "n", "X", "NUL"}

\* lintCategoryMap: empty (<<>>), or with one key
CategoryMaps ==
    {<<>>, ("X" :> <<"W">>), ("X" :> <<"i", "n", "f", "o">>), ("E" :> <<"Q">>),
     ("X" :> <<>>)}

SeverityCalls ==
    \E t \in EntryTypes, m \in CategoryMaps, d \in 0..DiagHint :
        probe = Call("getSeverity",
                     [typ |-> t, categoryMap |-> m, defaultSeverity |-> d])

MaxCoord == 2       \* line and column numbers of a probed entry

\* entries with any line and column numbers from -1 on, end numbers from 0
\* (not reported) on, under offsets of -1, 0 and 1
RangeCalls ==
    \E l \in -1..MaxCoord, el \in 0..MaxCoord, c \in -1..MaxCoord,
       ec \in 0..MaxCoord, lo \in -1..1, co \in -1..1, w \in 0..1,
       t \in {"E", "X"}, m \in {<<>>, ("X" :> <<"W">>)} :
        probe = Call("parseEfmEntryToDiagnostic",
                     [entry |-> [Lnum |-> l, EndLnum |-> el, Col |-> c,
                                 EndCol |-> ec, Type |-> t],
                      config |-> [LintOffset |-> lo, LintOffsetColumns |-> co,
                                  LintCategoryMap |-> m, LintSeverity |-> 0],
                      wordLen |-> w])

CallComputeEdits ==
    /\ Pending("ComputeEdits")
    /\ Return(ComputeEdits(probe.in.before, probe.in.after))
    /\ UNCHANGED serverVars

MaxText == 4        \* characters of a probed text

\* texts of up to MaxText characters, with and without "\n" at the end
EditTexts == UNION {[1..n -> {"a", "b", "\n"}] : n \in 0..MaxText}

EditCalls ==
    \E before \in EditTexts, after \in EditTexts :
        probe = Call("ComputeEdits", [before |-> before, after |-> after])

CallApplyOptionsPlaceholders ==
    /\ Pending("applyOptionsPlaceholders")
    /\ Return(applyOptionsPlaceholders(probe.in.command, probe.in.options))
    /\ UNCHANGED serverVars

\* "${", FLAG, ":" or "=", OPT, "}"
Placeholder(flag, c, opt) == <<"$", "{">> \o flag \o <<c>> \o opt \o <<"}">>

OptionFlags == {<<"f">>, <<"-", "f">>, <<"f", " ", "g">>, <<"f", "=", "g">>,
                <<"f", ":", "g">>}
OptionKeys == {<<"k">>, <<"j">>, <<"!", "k">>}
OptionValues == {BoolValue(TRUE), BoolValue(FALSE), OtherValue(<<"v">>),
                 OtherValue(<<"4">>), OtherValue(<<>>)}
OptionMaps == {<<>>} \cup {(<<"k">> :> v) : v \in OptionValues}
                     \cup {(<<"!", "k">> :> v) : v \in OptionValues}

\* commands with one placeholder of either grammar, alone or between other
\* text; a flag has no character in it that ends it in its grammar, and a
\* key that starts with "!" is written negated
OptionCalls ==
    \E c \in {":", "="}, flag \in OptionFlags, neg \in BOOLEAN, key \in OptionKeys,
       options \in OptionMaps, pre \in {<<>>, <<"e", " ">>}, post \in {<<>>, <<" ", "x">>} :
        /\ \A i \in 1..Len(flag) : flag[i] # c
        /\ Head(key) = "!" => neg
        /\ probe = Call("applyOptionsPlaceholders",
                [command |-> pre \o Placeholder(flag, c, IF neg THEN <<"!">> \o key
                                                                 ELSE key) \o post,
                 options |-> options, c |-> c, flag |-> flag, neg |-> neg,
                 key |-> key, pre |-> pre, post |-> post])

CallBuildFormatCommandString ==
    /\ Pending("buildFormatCommandString")
    /\ Return(buildFormatCommandString(probe.in.rootPath, probe.in.filename,
                                       probe.in.textToFormat, probe.in.options,
                                       probe.in.rng, probe.in.command))
    /\ UNCHANGED serverVars

\* templates with magic names and option placeholders
Templates ==
    {<<"fmt", " ">> \o inputPlaceholder,
     <<"fmt", " ">> \o filenamePlaceholder \o <<" ">> \o Placeholder(<<"-w">>, ":", <<"k">>),
     <<"cd", " ">> \o rootPlaceholder \o <<" ">> \o Placeholder(<<"-s">>, "=", <<"charStart">>),
     <<"fmt", " ">> \o Placeholder(<<"-e">>, "=", <<"j">>) \o <<" ", ".">> \o fileextPlaceholder}

\* paths of plain names, with parentheses, and with text of the form of a
\* placeholder in a name
TemplatePaths ==
    {<<"/", "a", ".", "go">>, <<"/", "a", "(", "1", ")", ".", "go">>,
     <<"/", "$", "{", "x", "}", ".", "go">>,
     <<"/", "p", "/">> \o rootPlaceholder,
     <<"/">> \o Placeholder(<<"f">>, ":", <<"k">>) \o <<".", "go">>,
     <<"/">> \o Placeholder(<<"f">>, "=", <<"k">>)}

CommandCalls ==
    \E command \in Templates, filename \in TemplatePaths, rootPath \in TemplatePaths,
       options \in {<<>>, (<<"k">> :> OtherValue(<<"v">>))},
       rng \in {NoRange, RangeOf(0, 1, 1, 0)} :
        probe = Call("buildFormatCommandString",
                     [rootPath |-> rootPath, filename |-> filename,
                      textToFormat |-> <<"a", "b", "\n", "c">>,
                      options |-> options, rng |-> rng, command |-> command])

\* the calls of getAllConfigsForLang and of the two selections
ConfigCalls ==
    \/ \E t \in GateTables, e \in Events :
            probe = Call("getLintConfigsForDocument",
                         [fname |-> <<"proj", "a.go">>, langId |-> "vim",
                          allConfigs |-> t, eventType |-> e])
    \/ \E t \in OrderTables, l \in {"go", "vim", Wildcard} :
            probe = Call("getAllConfigsForLang", [allConfigs |-> t, langId |-> l])
    \/ \E t \in OrderTables, l \in {"go", "vim"} :
            \/ \E e \in {"change", "save"} :
                    probe = Call("getLintConfigsForDocument",
                                 [fname |-> <<"proj", "a.go">>, langId |-> l,
                                  allConfigs |-> t, eventType |-> e])
            \/ probe = Call("getFormatConfigsForDocument",
                            [fname |-> <<"proj", "a.go">>, langId |-> l,
                             allConfigs |-> t])

\* ---------------------------------------------------------- specification
vars == <<now, panicked, storeVars, lintVars, fmtVars, probe>>

\* the server as constructed: no document, no timer, debounce durations 0
ServerInit ==
    /\ now = 0
    /\ panicked = FALSE
    /\ configs = Table
    /\ files = [u \in URIs |-> NoRef]
    /\ heap = [r \in RefIds |-> NoFile]
    /\ lintTimer = NoTimer
    /\ lintDebounce = 0
    /\ timers = [t \in TimerIds |-> NoTimerRec]
    /\ running = [u \in URIs |-> NoRun]
    /\ calls = [h \in Handlers |-> IdleCall]
    /\ runs = [r \in RunIds |-> FreeRun]
    /\ burst = NoBurst
    /\ formatTimer = NoTimer
    /\ formatDebounce = 0
    /\ ftimers = [t \in TimerIds |-> NoFTimer]
    /\ fcalls = [h \in Handlers |-> IdleFcall]
    /\ expect = [doc |-> [u \in URIs |-> NoDoc], err |-> "none"]

Init == ServerInit /\ probe = NoProbe

\* the lint scheduler under the clock: concurrent ScheduleLinting calls for
\* one URI, the debounce configured before the first of them
NextDebounce ==
    \/ Tick
    \/ /\ \A h \in Handlers : calls[h].pc = "idle"
       /\ \A r \in RunIds : runs[r].pc = "free"
       /\ \A t \in TimerIds : TimerIsFree(t)
       /\ \E d \in 0..MaxDebounce : UpdateConfiguration(NilLanguages, d, 0)
    \/ \E h \in Handlers : SchedCheck(h, "u1", "change")
    \/ \E h \in Handlers : SchedReset(h)
    \/ \E h \in Handlers : SchedArm(h)
    \/ \E t \in TimerIds, r \in RunIds : TimerFire(t, r)
    \/ \E r \in RunIds : CbClear(r)
    \/ \E r \in RunIds : CbRegister(r)
    \/ \E r \in RunIds : RalStart(r)

SpecDebounce == Init /\ [][NextDebounce]_vars

\* timer callbacks for two URIs, the debounce 0 as constructed: the handles
\* of the package variable running
NextCancel ==
    \/ \E h \in Handlers, u \in URIs : SchedCheck(h, u, "change")
    \/ \E h \in Handlers : SchedReset(h)
    \/ \E h \in Handlers : SchedArm(h)
    \/ \E t \in TimerIds, r \in RunIds : TimerFire(t, r)
    \/ \E r \in RunIds : CbClear(r)
    \/ \E r \in RunIds : CbRegister(r)
    \/ \E r \in RunIds : RalStart(r)

SpecCancel == Init /\ [][NextCancel]_vars

\* one lint run, with the document store changing under it: the requests
\* that lead to the run, then the run; the debounce is 0 as constructed, so a
\* timer expires as soon as it is armed
NextRun ==
    \/ \E v \in 0..MaxVersion : OpenFile("u1", "go", v, <<"a">>)
    \/ \E v \in -1..MaxVersion : UpdateFile("u1", <<"a">>, v)
    \/ CloseFile("u1")
    \/ runs[1].pc = "free" /\ \E e \in {"change", "save"} : SchedCheck("h1", "u1", e)
    \/ SchedReset("h1")
    \/ SchedArm("h1")
    \/ \E t \in TimerIds : TimerFire(t, 1)
    \/ CbClear(1)
    \/ CbRegister(1)
    \/ RalStart(1)
    \/ RalReset(1)
    \/ RalBegin(1)
    \/ \E i \in 1..2 : TaskStart(1, i)
    \/ \E i \in 1..2, x \in ExitCodes, n \in EntryCounts : TaskFinish(1, i, x, n)
    \/ RalEnd(1)

SpecRun == Init /\ [][NextRun]_vars

\* concurrent formatting requests under the clock, for a document that is
\* opened once, the debounce configured before the first of them; each
\* command copies its input or fails
NextFormat ==
    \/ Tick
    \/ /\ \A h \in Handlers : fcalls[h].pc = "idle"
       /\ \E d \in 0..MaxDebounce : UpdateConfiguration(NilLanguages, 0, d)
    \/ files["u1"] = NoRef /\ OpenFile("u1", "vim", 0, <<"a">>)
    \/ \E h \in Handlers : FmtCheck(h, "u1")
    \/ \E h \in Handlers : FmtArm(h)
    \/ \E t \in TimerIds : FmtTimerFire(t)
    \/ \E h \in Handlers : RafStart(h)
    \/ \E h \in Handlers : RafBegin(h)
    \/ \E h \in Handlers, ok \in BOOLEAN : RafFormat(h, ok, fcalls[h].cur)
    \/ \E h \in Handlers : RafFinish(h)

SpecFormat == Init /\ [][NextFormat]_vars

FmtTexts == {<<"a">>, <<"a", "\n">>}

\* one formatting request at a time over documents of either language, the
\* commands writing any of FmtOutputs; the debounce is 0 as constructed
NextPipeline ==
    \/ \E l \in Langs, t \in FmtTexts : OpenFile("u1", l, 0, t)
    \/ CloseFile("u1")
    \/ FmtCheck("h1", "u1")
    \/ FmtArm("h1")
    \/ \E t \in TimerIds : FmtTimerFire(t)
    \/ RafStart("h1")
    \/ RafBegin("h1")
    \/ \E ok \in BOOLEAN : \E out \in FmtOutputs(fcalls["h1"].cur) : RafFormat("h1", ok, out)
    \/ RafFinish("h1")

SpecPipeline == Init /\ [][NextPipeline]_vars

\* the document store under open, change and close notifications for two
\* URIs, with one lint run (requested while no timer is pending) and one
\* formatting request starting on it; the debounce is 0 as constructed
NextStore ==
    \/ \E v \in 0..MaxVersion : OpenFile("u1", "go", v, <<"a">>)
    \/ OpenFile("u2", "txt", 0, <<"a">>)
    \/ \E t \in Texts, v \in -1..MaxVersion : UpdateFile("u1", t, v)
    \/ UpdateFile("u2", <<"b">>, -1)
    \/ \E u \in URIs : CloseFile(u)
    \/ /\ runs[1].pc = "free" /\ lintTimer = NoTimer
       /\ \E u \in URIs : SchedCheck("h1", u, "change")
    \/ SchedArm("h1")
    \/ \E t \in TimerIds : TimerFire(t, 1)
    \/ CbClear(1)
    \/ CbRegister(1)
    \/ RalStart(1)
    \/ fcalls["h1"].pc = "idle" /\ \E u \in URIs : FmtCheck("h1", u)
    \/ FmtArm("h1")
    \/ \E t \in TimerIds : FmtTimerFire(t)
    \/ RafStart("h1")

SpecStore == Init /\ [][NextStore]_vars

\* two lint runs of one open document, the first cancelled by the callback
\* of the second, with the processes of their commands
NextProc ==
    \/ files["u1"] = NoRef /\ OpenFile("u1", "vim", 0, <<"a">>)
    \/ /\ lintTimer = NoTimer
       /\ \E r \in RunIds : runs[r].pc = "free"
       /\ SchedCheck("h1", "u1", "change")
    \/ SchedArm("h1")
    \/ \E t \in TimerIds, r \in RunIds : TimerFire(t, r)
    \/ \E r \in RunIds : CbClear(r)
    \/ \E r \in RunIds : CbRegister(r)
    \/ \E r \in RunIds : RalStart(r)
    \/ \E r \in RunIds : RalReset(r)
    \/ \E r \in RunIds : RalBegin(r)
    \/ \E r \in RunIds, i \in 1..2 : TaskStart(r, i)
    \/ \E r \in RunIds, i \in 1..2 : Spawn(r, i)
    \/ \E r \in RunIds, i \in 1..2 : ChildExit(r, i)
    \/ \E r \in RunIds, i \in 1..2 : CmdCancel(r, i)
    \/ \E r \in RunIds, i \in 1..2, x \in {0, -1} : TaskFinish(r, i, x, 0)
    \/ \E r \in RunIds : RalEnd(r)

SpecProc == Init /\ [][NextProc]_vars

\* two lint runs with the processes of their commands, up to the close of
\* their channels, and a formatting request after them
NextChannels ==
    \/ files["u1"] = NoRef /\ OpenFile("u1", "go", 0, <<"a">>)
    \/ /\ lintTimer = NoTimer /\ fcalls["h1"].pc = "idle"
       /\ runs[2].pc = "free"
       /\ \E u \in URIs : SchedCheck("h1", u, "change")
    \/ SchedArm("h1")
    \/ \E t \in TimerIds, r \in RunIds : TimerFire(t, r)
    \/ \E r \in RunIds : CbClear(r)
    \/ \E r \in RunIds : CbRegister(r)
    \/ \E r \in RunIds : RalStart(r)
    \/ \E r \in RunIds : RalReset(r)
    \/ \E r \in RunIds : RalBegin(r)
    \/ \E r \in RunIds, i \in 1..3 : TaskStart(r, i)
    \/ \E r \in RunIds, i \in 1..3 : CmdCancel(r, i)
    \/ \E r \in RunIds, i \in 1..3, x \in ExitCodes : TaskFinish(r, i, x, 1)
    \/ \E r \in RunIds : RalEnd(r)
    \/ \E r \in RunIds : CbClose(r)
    \/ /\ fcalls["h1"].pc = "idle"
       /\ \A r \in RunIds : runs[r].pc \in {"free", "closed"}
       /\ FmtCheck("h1", "u1")
    \/ FmtArm("h1")
    \/ \E t \in TimerIds : FmtTimerFire(t)
    \/ RafStart("h1")
    \/ RafBegin("h1")
    \/ \E ok \in BOOLEAN : RafFormat("h1", ok, fcalls["h1"].cur)
    \/ RafFinish("h1")

SpecChannels == Init /\ [][NextChannels]_vars

\* ScheduleLinting calls for two open documents, as many as there are
\* callbacks left to serve them; the debounce is 0 as constructed.  The
\* runtime runs every goroutine that can take a step and fires every timer
\* that has expired.
Obligations ==
    Cardinality({t \in TimerIds : timers[t].st = "armed"})
        + Cardinality({h \in Handlers : calls[h].pc # "idle"})

NextSchedule ==
    \/ \E u \in URIs : files[u] = NoRef /\ OpenFile(u, "go", 0, <<"a">>)
    \/ /\ Cardinality({r \in RunIds : runs[r].pc = "free"}) > Obligations
       /\ \E h \in Handlers, u \in URIs :
            files[u] # NoRef /\ SchedCheck(h, u, "change")
    \/ \E h \in Handlers : SchedReset(h)
    \/ \E h \in Handlers : SchedArm(h)
    \/ \E t \in TimerIds, r \in RunIds : TimerFire(t, r)
    \/ \E r \in RunIds : CbClear(r)
    \/ \E r \in RunIds : CbRegister(r)
    \/ \E r \in RunIds : RalStart(r)

SpecSchedule ==
    /\ Init /\ [][NextSchedule]_vars
    /\ WF_vars(\E h \in Handlers : SchedReset(h))
    /\ WF_vars(\E h \in Handlers : SchedArm(h))
    /\ WF_vars(\E t \in TimerIds, r \in RunIds : TimerFire(t, r))
    /\ WF_vars(\E r \in RunIds : CbClear(r))
    /\ WF_vars(\E r \in RunIds : CbRegister(r))
    /\ WF_vars(\E r \in RunIds : RalStart(r))

\* tables whose selections for a "go" document differ from one another and
\* from those of the first table
SnapshotTables ==
    {("go" :> <<K1, K3>>), ("go" :> <<K3>>) @@ (Wildcard :> <<K1>>)}

\* a document opened at version 0 and changed only after the request that
\* arms the debounce timer; the debounce is configured before that request
Triggered == (\E t \in TimerIds : ~TimerIsFree(t)) \/ (\E r \in RunIds : runs[r].pc # "free")

NextLatest ==
    \/ Tick
    \/ /\ calls["h1"].pc = "idle" /\ ~Triggered
       /\ \E d \in 0..MaxDebounce : UpdateConfiguration(NilLanguages, d, 0)
    \/ files["u1"] = NoRef /\ OpenFile("u1", "go", 0, <<"a">>)
    \/ Triggered /\ \E t \in {<<"a">>, <<"b">>}, v \in {-1} \cup 1..MaxVersion :
                        UpdateFile("u1", t, v)
    \/ /\ files["u1"] # NoRef
       /\ \A r \in RunIds : runs[r].pc = "free"
       /\ SchedCheck("h1", "u1", "change")
    \/ SchedReset("h1")
    \/ SchedArm("h1")
    \/ \E t \in TimerIds, r \in RunIds : TimerFire(t, r)
    \/ \E r \in RunIds : CbClear(r)
    \/ \E r \in RunIds : CbRegister(r)
    \/ \E r \in RunIds : RalStart(r)
    \/ \E r \in RunIds : RalReset(r)
    \/ \E r \in RunIds : RalBegin(r)

SpecLatest == Init /\ [][NextLatest]_vars

\* tables from which no lint config is selected for a "go" document: no
\* entry, a config whose marker is required and not found, a config without
\* a lint command, and (at a save) a config that does not lint on save
SilentTables ==
    {<<>>,
     ("go" :> <<Language("lintM", "", TRUE, <<Marker("nowhere", FALSE)>>,
                         "unset", "unset", "unset", TRUE)>>),
     ("go" :> <<CfgC>>),
     ("go" :> <<CfgB>>)}

\* lint runs of an open document one after the other, the language table
\* replaced between them
NextSilent ==
    \/ files["u1"] = NoRef /\ OpenFile("u1", "go", 0, <<"a">>)
    \/ /\ \A r \in RunIds : runs[r].pc \in {"free", "returned"}
       /\ \E m \in SilentTables : UpdateConfiguration(Languages(m), 0, 0)
    \/ /\ files["u1"] # NoRef /\ lintTimer = NoTimer
       /\ \A r \in RunIds : runs[r].pc \in {"free", "returned"}
       /\ \E e \in Events : SchedCheck("h1", "u1", e)
    \/ SchedArm("h1")
    \/ \E t \in TimerIds, r \in RunIds : TimerFire(t, r)
    \/ \E r \in RunIds : CbClear(r)
    \/ \E r \in RunIds : CbRegister(r)
    \/ \E r \in RunIds : RalStart(r)
    \/ \E r \in RunIds : RalReset(r)
    \/ \E r \in RunIds : RalBegin(r)
    \/ \E r \in RunIds, i \in 1..3 : TaskStart(r, i)
    \/ \E r \in RunIds, i \in 1..3 : TaskFinish(r, i, 1, 1)
    \/ \E r \in RunIds : RalEnd(r)

SpecSilent == Init /\ [][NextSilent]_vars

\* one lint run and one formatting request of an open document, with the
\* language table replaced at any moment of either
NextSnapshot ==
    \/ files["u1"] = NoRef /\ OpenFile("u1", "go", 0, <<"a">>)
    \/ \E m \in SnapshotTables : UpdateConfiguration(Languages(m), 0, 0)
    \/ runs[1].pc = "free" /\ lintTimer = NoTimer /\ SchedCheck("h1", "u1", "change")
    \/ SchedArm("h1")
    \/ \E t \in TimerIds : TimerFire(t, 1)
    \/ CbClear(1)
    \/ CbRegister(1)
    \/ RalStart(1)
    \/ RalReset(1)
    \/ RalBegin(1)
    \/ \E i \in 1..3 : TaskStart(1, i)
    \/ \E i \in 1..3 : TaskFinish(1, i, 1, 1)
    \/ RalEnd(1)
    \/ fcalls["h1"].pc = "idle" /\ FmtCheck("h1", "u1")
    \/ FmtArm("h1")
    \/ \E t \in TimerIds : FmtTimerFire(t)
    \/ RafStart("h1")
    \/ RafBegin("h1")
    \/ \E ok \in BOOLEAN : RafFormat("h1", ok, fcalls["h1"].cur)
    \/ RafFinish("h1")

SpecSnapshot == Init /\ [][NextSnapshot]_vars

\* the tables a notification may carry: one without the languages of the
\* first table, one that redefines a language, the empty map
NotifiedTables ==
    {("vim" :> <<CfgA>>) @@ (Wildcard :> <<CfgC>>), ("txt" :> <<CfgB, CfgA>>), <<>>}

\* configuration notifications of every shape between the document
\* notifications
NextConfig ==
    \/ \E v \in 0..MaxVersion : OpenFile("u1", "go", v, <<"a">>)
    \/ \E t \in Texts, v \in -1..MaxVersion : UpdateFile("u1", t, v)
    \/ CloseFile("u1")
    \/ \E l \in {NilLanguages} \cup {Languages(m) : m \in NotifiedTables},
          lintD \in -1..MaxDebounce, formatD \in -1..MaxDebounce :
            UpdateConfiguration(l, lintD, formatD)

SpecConfig == Init /\ [][NextConfig]_vars

\* the functions of the pipelines: one call, of any function with any of
\* its arguments, is pending at the start and is then made
InitPure ==
    /\ ServerInit
    /\ \/ ConfigCalls
       \/ MarkerCalls
       \/ ExitCalls
       \/ FilenameCalls
       \/ SeverityCalls
       \/ RangeCalls
       \/ EditCalls
       \/ OptionCalls
       \/ CommandCalls

NextPure ==
    \/ CallGetAllConfigsForLang
    \/ CallGetLintConfigsForDocument
    \/ CallGetFormatConfigsForDocument
    \/ CallFindRootPath
    \/ CallRunLintCommand
    \/ CallLintDocument
    \/ CallEntryIsForDocument
    \/ CallGetSeverity
    \/ CallParseEfmEntryToDiagnostic
    \/ CallComputeEdits
    \/ CallApplyOptionsPlaceholders
    \/ CallBuildFormatCommandString

SpecPure == InitPure /\ [][NextPure]_vars

\* ------------------------------------------------------------------ claims

\* C1 (SpecDebounce): in a sequence of ScheduleLinting calls for one URI, each
\* less than lintDebounce after the one before, at most one timer callback is
\* dispatched for the sequence, and none before lintDebounce has passed since
\* the last call of the sequence.
C1_OneRunPerBurst == burst.same => (burst.runs <= 1 /\ ~burst.early)

\* a run holds a cancellation scope from the moment its handle is registered
Scoped(r) == runs[r].pc \notin {"free", "cb", "lock"}

\* C2 (SpecCancel): the handle registered for a URI is called in the step
\* that registers the handle of the new run, before that run starts: the
\* handle in running[u] is the one of a run for u, every other run for u that
\* holds a scope is cancelled, and so at most one run per URI holds a scope
\* that is not cancelled.
C2_OneLiveScope ==
    /\ \A u \in URIs : running[u] # NoRun =>
            Scoped(running[u]) /\ runs[running[u]].uri = u
    /\ \A r \in RunIds : (Scoped(r) /\ running[runs[r].uri] # r) => runs[r].cancelled
    /\ \A u \in URIs :
            Cardinality({r \in RunIds : Scoped(r) /\ runs[r].uri = u
                                          /\ ~runs[r].cancelled}) <= 1

\* two runs for u1 hold a scope: the older is cancelled, the newer is not
C2_Witness ==
    \E r1, r2 \in RunIds :
        /\ r1 # r2
        /\ Scoped(r1) /\ Scoped(r2)
        /\ runs[r1].uri = "u1" /\ runs[r2].uri = "u1"
        /\ runs[r1].cancelled /\ ~runs[r2].cancelled
        /\ running["u1"] = r2

\* C3 (SpecRun): a run that selected configs sends the reset message (empty
\* list) as the first message on the diagnostics channel: once past the
\* reset the first message is the reset, and every later one is a per-config
\* message.
C3_ResetFirst ==
    \A r \in RunIds :
        /\ (runs[r].cfgs # <<>> /\ runs[r].pc \in {"begin", "tasks", "returned"})
                => Len(runs[r].diags) >= 1
        /\ runs[r].diags # <<>> =>
                /\ runs[r].diags[1].kind = "reset" /\ runs[r].diags[1].n = 0
                /\ \A j \in 2..Len(runs[r].diags) : runs[r].diags[j].kind = "cfg"

\* a run has sent its reset message and a per-config message after it
C3_Witness ==
    \E r \in RunIds : Len(runs[r].diags) >= 2 /\ runs[r].diags[2].kind = "cfg"

\* C4 (SpecRun): every publishDiagnostics message of a run carries the version
\* the fileRef had when the run started.
C4_VersionAtStart ==
    \A r \in RunIds : \A j \in DOMAIN runs[r].diags :
        runs[r].diags[j].version = runs[r].v0

\* the items task i of run r has produced: its per-config messages and its error
Items(r, i) ==
    Cardinality({j \in DOMAIN runs[r].diags :
                    runs[r].diags[j].kind = "cfg" /\ runs[r].diags[j].cfg = i})
    + (IF i \in runs[r].errs THEN 1 ELSE 0)

\* C5 (SpecRun): each task of a run produces exactly one item, a per-config
\* message or an error: a task that has finished has produced one, a task
\* that has not has produced none, whatever its siblings did; a run that
\* selected n configs has n tasks, and when it has returned all of them have
\* finished and it returned success.
C5_OneItemPerTask ==
    \A r \in RunIds :
        /\ \A i \in DOMAIN runs[r].tasks :
                Items(r, i) = IF runs[r].tasks[i] = "done" THEN 1 ELSE 0
        /\ runs[r].pc = "tasks" => Len(runs[r].tasks) = Len(runs[r].cfgs)
        /\ (runs[r].pc = "returned" /\ runs[r].cfgs # <<>>) =>
                /\ Len(runs[r].tasks) = Len(runs[r].cfgs)
                /\ \A i \in DOMAIN runs[r].tasks : runs[r].tasks[i] = "done"
                /\ runs[r].ret = "ok"

\* a run has returned success with one task that reported an error and
\* another that published its diagnostics
C5_Witness ==
    \E r \in RunIds :
        /\ runs[r].pc = "returned" /\ runs[r].ret = "ok"
        /\ Len(runs[r].tasks) = 2
        /\ runs[r].errs # {}
        /\ \E j \in DOMAIN runs[r].diags : runs[r].diags[j].kind = "cfg"

\* C6 (SpecRun): a run that selected configs sends one progress begin and one
\* progress end with the same token: the begin before any task exists, the end
\* only when every task has finished, and both by the time it returns.
C6_ProgressBrackets ==
    \A r \in RunIds :
        LET begin == [kind |-> "begin", token |-> r]
            end == [kind |-> "end", token |-> r]
        IN  /\ runs[r].prog \in {<<>>, <<begin>>, <<begin, end>>}
            /\ runs[r].tasks # <<>> => runs[r].prog # <<>>
            /\ Len(runs[r].prog) = 2 =>
                    \A i \in DOMAIN runs[r].tasks : runs[r].tasks[i] = "done"
            /\ (runs[r].pc = "returned" /\ runs[r].cfgs # <<>>) =>
                    runs[r].prog = <<begin, end>>

\* a run with two tasks has returned after its begin and its end
C6_Witness ==
    \E r \in RunIds :
        /\ runs[r].pc = "returned"
        /\ Len(runs[r].tasks) = 2
        /\ Len(runs[r].prog) = 2

\* what a formatting request that found a timer in the slot returns
C7_Dropped(c) ==
    /\ c.pc = "done" /\ c.edits = <<>> /\ c.err = "none"
    /\ ~c.ran /\ c.log = <<>> /\ c.prog = <<>>

\* the steps of a formatting request and of the format timer
C7_Step ==
    /\ \A h \in Handlers :
        /\ (FFree(h) /\ fcalls'[h] # fcalls[h]) =>
                IF formatTimer # NoTimer
                THEN fcalls'[h].saw /\ C7_Dropped(fcalls'[h])
                ELSE ~fcalls'[h].saw /\ fcalls'[h].pc = "arm"
        /\ (fcalls[h].pc = "arm" /\ fcalls'[h].pc # "arm") =>
                /\ fcalls'[h].pc = "start"
                /\ formatTimer' # NoTimer
                /\ ftimers'[formatTimer'] =
                        [armed |-> TRUE, deadline |-> now + formatDebounce]
    /\ \A t \in TimerIds :
        (ftimers[t].armed /\ ~ftimers'[t].armed) =>
            now >= ftimers[t].deadline /\ formatTimer' = NoTimer

C8_OneFormatterRun ==
    Cardinality({h \in Handlers : fcalls[h].pc \in {"begin", "loop"}}) <= 1

\* the text after the first j commands of a log: the output of the last
\* that succeeded, as written (strip = FALSE) or with the carriage returns
\* removed (strip = TRUE)
RECURSIVE TextAfter(_, _, _, _)
TextAfter(orig, log, j, strip) ==
    IF j = 0 THEN orig
    ELSE IF log[j].ok THEN (IF strip THEN StripCR(log[j].out) ELSE log[j].out)
    ELSE TextAfter(orig, log, j - 1, strip)

\* the formatters run in the order of the selected configs, each on the text
\* after the ones before it; the edits are those from the original text to
\* the text after the last
Threaded(c, conv) ==
    /\ Len(c.log) <= Len(c.cfgs)
    /\ \A j \in DOMAIN c.log :
            c.log[j].stdin = TextAfter(c.orig, c.log, j - 1, conv)
    /\ (c.pc = "done" /\ c.formatted) =>
            /\ Len(c.log) = Len(c.cfgs)
            /\ c.edits = ComputeEdits(c.orig, TextAfter(c.orig, c.log, Len(c.log), conv))

\* C9 (SpecPipeline), as stated: each formatter receives the output of the
\* most recent formatter that succeeded, and the edits are computed against
\* the output of the last one that succeeded.
C9_ThreadsRawOutput == \A h \in Handlers : Threaded(fcalls[h], FALSE)

\* C9 (SpecPipeline), amended: each formatter receives the output of the most
\* recent formatter that succeeded with every carriage return removed (the
\* original text if none has), a formatter that fails leaves the text as it
\* is, and the edits are ComputeEdits(original text, that text after the last
\* formatter).
C9_ThreadsStrippedOutput ==
    \A h \in Handlers :
        /\ Threaded(fcalls[h], TRUE)
        /\ fcalls[h].pc = "loop" =>
                fcalls[h].cur = TextAfter(fcalls[h].orig, fcalls[h].log,
                                          Len(fcalls[h].log), TRUE)

\* a request has run two formatters: the first wrote a carriage return, the
\* second received the text without it, and edits were returned
C9_Witness ==
    \E h \in Handlers :
        /\ fcalls[h].pc = "done" /\ Len(fcalls[h].log) = 2
        /\ fcalls[h].log[1].ok /\ fcalls[h].log[2].ok
        /\ \E i \in DOMAIN fcalls[h].log[1].out : fcalls[h].log[1].out[i] = "\r"
        /\ fcalls[h].log[2].stdin # fcalls[h].log[1].out
        /\ fcalls[h].edits # <<>>

\* C10 (SpecPipeline): RunAllFormatters returns an error exactly when the
\* document is not open, or configs were selected and every formatter failed;
\* in that case the error lists every formatter and there are no edits; with
\* no config selected it returns no edits and no error; with one formatter
\* that succeeded it returns no error.
C10_FormatErrors ==
    \A h \in Handlers :
        LET c == fcalls[h]
            allFailed == c.cfgs # <<>> /\ \A j \in DOMAIN c.log : ~c.log[j].ok
        IN  (c.pc = "done" /\ c.ran) =>
                /\ c.err # "none" <=> (c.f = NoRef \/ allFailed)
                /\ c.err = "notfound" <=> c.f = NoRef
                /\ c.err # "none" => c.edits = <<>>
                /\ c.err = "allfailed" =>
                        c.errors = [j \in 1..Len(c.cfgs) |-> j]
                /\ (c.f # NoRef /\ c.cfgs = <<>>) =>
                        c.edits = <<>> /\ c.err = "none" /\ c.log = <<>>
                /\ (\E j \in DOMAIN c.log : c.log[j].ok) => c.err = "none"

\* a request has returned edits and no error although one of its two
\* formatters failed
C10_Witness ==
    \E h \in Handlers :
        /\ fcalls[h].pc = "done" /\ fcalls[h].err = "none"
        /\ Len(fcalls[h].log) = 2
        /\ \E j \in DOMAIN fcalls[h].log : ~fcalls[h].log[j].ok
        /\ fcalls[h].edits # <<>>

\* the map and the fileRef objects hold, for each URI, exactly the document
\* the store calls made so far leave it with
StoreFollowsCalls ==
    /\ \A u \in URIs :
        IF expect.doc[u].open
        THEN /\ files[u] # NoRef
             /\ heap[files[u]].alloc
             /\ heap[files[u]].Version = expect.doc[u].Version
             /\ heap[files[u]].LanguageID = expect.doc[u].LanguageID
             /\ heap[files[u]].Text = expect.doc[u].Text
        ELSE files[u] = NoRef
    /\ \A u, w \in URIs : (u # w /\ files[u] # NoRef) => files[u] # files[w]

\* a call for a URI that holds no document fails with "document not found",
\* publishes nothing and changes nothing of the store
ClosedFails ==
    \A u \in URIs : ~expect.doc[u].open =>
        /\ (\E t \in Texts, v \in -1..MaxVersion : UpdateFile(u, t, v)) =>
                /\ expect'.err = "notfound"
                /\ UNCHANGED <<configs, files, heap, runs, fcalls>>
                /\ expect'.doc = expect.doc
        /\ \A r \in RunIds : (runs[r].uri = u /\ RalStart(r)) =>
                /\ runs'[r].pc = "returned" /\ runs'[r].ret = "err"
                /\ runs'[r].diags = <<>> /\ runs'[r].prog = <<>>
                /\ runs'[r].errs = {} /\ runs'[r].tasks = <<>>
                /\ UNCHANGED storeVars
        /\ \A h \in Handlers : (fcalls[h].uri = u /\ RafStart(h)) =>
                /\ fcalls'[h].pc = "done" /\ fcalls'[h].err = "notfound"
                /\ fcalls'[h].prog = <<>> /\ fcalls'[h].edits = <<>>
                /\ UNCHANGED storeVars

\* C11 (SpecStore): the store holds at most one fileRef per URI, with the
\* document of the most recent OpenFile and the UpdateFile calls after it;
\* from CloseFile(uri) to the next OpenFile(uri), RunAllLinters,
\* RunAllFormatters and UpdateFile for the URI fail with "document not found",
\* publish nothing and change no state.
C11_StoreAndNotFound == []StoreFollowsCalls /\ [][ClosedFails]_vars

\* C11 witness: with one document open, an UpdateFile, a lint run and a
\* formatter run for the other URI have failed
C11_Witness ==
    /\ expect.err = "notfound"
    /\ expect.doc["u1"].open /\ ~expect.doc["u2"].open
    /\ runs[1].pc = "returned" /\ runs[1].ret = "err" /\ runs[1].uri = "u2"
    /\ fcalls["h1"].pc = "done" /\ fcalls["h1"].err = "notfound"
    /\ fcalls["h1"].uri = "u2"

\* C12 (SpecStore): over any sequence of OpenFile and UpdateFile calls, the
\* version recorded for a URI never decreases, whatever versions the client
\* supplies.
C12_VersionMonotone ==
    [][\A u \in URIs :
          (files[u] # NoRef /\ files'[u] # NoRef) =>
              heap'[files'[u]].Version >= heap[files[u]].Version]_vars

\* the elements of a list
Range(q) == {q[i] : i \in DOMAIN q}

\* the flag a config has for an event
OwnFlag(cfg, eventType) ==
    IF eventType = "open" THEN cfg.LintAfterOpen
    ELSE IF eventType = "change" THEN cfg.LintOnChange
    ELSE cfg.LintOnSave

\* C13 (SpecPure): a lint config (with a command, not requiring a marker)
\* is selected for an event exactly when its flag for that event is unset or
\* true, whatever its flags for the other events; a config whose three flags
\* are false is selected for no event.
C13_EventGate ==
    (probe.fn = "getLintConfigsForDocument" /\ probe.done
        /\ DOMAIN probe.in.allConfigs = {probe.in.langId}) =>
    \A cfg \in Range(probe.in.allConfigs[probe.in.langId]) :
        (cfg.LintCommand # "" /\ ~cfg.RequireMarker) =>
            /\ cfg \in Range(probe.out) <=>
                    OwnFlag(cfg, probe.in.eventType) \in {"unset", "true"}
            /\ (cfg.LintAfterOpen = "false" /\ cfg.LintOnChange = "false"
                    /\ cfg.LintOnSave = "false") => probe.out = <<>>

\* C13 witness: a save with lintOnSave true and the other two flags false
\* selects the config
C13_Witness ==
    /\ probe.fn = "getLintConfigsForDocument" /\ probe.done
    /\ probe.in.eventType = "save"
    /\ probe.in.allConfigs \in GateTables
    /\ probe.in.allConfigs["vim"][1].LintOnSave = "true"
    /\ probe.in.allConfigs["vim"][1].LintOnChange = "false"
    /\ probe.in.allConfigs["vim"][1].LintAfterOpen = "false"
    /\ Len(probe.out) = 1

\* the entries a table has under a key
Entries(allConfigs, key) ==
    IF key \in DOMAIN allConfigs THEN allConfigs[key] ELSE <<>>

\* q is p with some elements left out, the others in the order they have in p
IsSubSeqOf(q, p) ==
    \E f \in [1..Len(q) -> 1..Len(p)] :
        /\ \A i \in 1..Len(q) : q[i] = p[f[i]]
        /\ \A i, j \in 1..Len(q) : i < j => f[i] < f[j]

\* the filter of a selection, for configs that require no marker
Kept(fn, cfg, eventType) ==
    IF fn = "getLintConfigsForDocument"
    THEN cfg.LintCommand # "" /\ OwnFlag(cfg, eventType) \in {"unset", "true"}
    ELSE cfg.FormatCommand # ""

\* C14 (SpecPure): the configs considered for a language id are its entries
\* in their order followed by the entries of the wildcard key in their order,
\* the wildcard entries added to and never put in place of the others; the
\* lint and the format selection leave out the configs they filter and keep
\* the others in this order.
C14_ConfigOrder ==
    probe.done =>
    LET L == Entries(probe.in.allConfigs, probe.in.langId)
        W == Entries(probe.in.allConfigs, Wildcard)
        n == Len(L) + Len(W)
        all == [i \in 1..n |-> IF i <= Len(L) THEN L[i] ELSE W[i - Len(L)]]
    IN  /\ probe.fn = "getAllConfigsForLang" => probe.out = all
        /\ (probe.fn \in {"getLintConfigsForDocument", "getFormatConfigsForDocument"}
                /\ \A i \in 1..n : ~all[i].RequireMarker) =>
            LET ev == IF probe.fn = "getLintConfigsForDocument"
                      THEN probe.in.eventType ELSE "change"
            IN  /\ IsSubSeqOf(probe.out, all)
                /\ \A i \in 1..Len(probe.out) : Kept(probe.fn, probe.out[i], ev)
                /\ Len(probe.out) =
                        Cardinality({i \in 1..n : Kept(probe.fn, all[i], ev)})

\* C14 witness: a save of a "go" document with two entries under "go" and two
\* under the wildcard selects the entries that lint on save, the wildcard
\* entry last
C14_Witness ==
    /\ probe.fn = "getLintConfigsForDocument" /\ probe.done
    /\ probe.in.langId = "go" /\ probe.in.eventType = "save"
    /\ DOMAIN probe.in.allConfigs = {"go", Wildcard}
    /\ probe.in.allConfigs["go"] = <<K2, K1>>
    /\ probe.in.allConfigs[Wildcard] = <<K3, K2>>
    /\ probe.out = <<K1, K3>>

\* the directory of a file and the directories above it
Ancestors(fname) == {SubSeq(fname, 1, k) : k \in 0..(Len(fname) - 1)}

\* some marker matches an entry of the directory of the file or of a
\* directory above it: a marker with a trailing slash a directory, any other
\* marker a file
MarkerFound(fname, markers) ==
    \E d \in Ancestors(fname) : \E e \in ReadDir(d) : \E i \in DOMAIN markers :
        /\ markers[i].slash = e.isDir
        /\ markers[i].pat \in {"*", e.name}

\* C15 (SpecPure): a lint or format config that requires a marker is
\* selected exactly when one of its root markers matches in the directory of
\* the file or in one above it, and is left out otherwise; a config that
\* does not require one is selected in either case, and the root of its
\* command is the server's RootPath when no marker matches.
C15_RequireMarker ==
    probe.done =>
    /\ (probe.fn \in {"getLintConfigsForDocument", "getFormatConfigsForDocument"}
            /\ probe.in.allConfigs \in {("go" :> <<c>>) : c \in MarkerConfigs}) =>
        LET cfg == probe.in.allConfigs["go"][1]
            found == MarkerFound(probe.in.fname, cfg.RootMarkers)
        IN  IF cfg.RequireMarker /\ ~found
            THEN probe.out = <<>>
            ELSE probe.out = <<cfg>>
    /\ probe.fn = "findRootPath" =>
        IF MarkerFound(probe.in.fname, probe.in.lang.RootMarkers)
        THEN /\ probe.out \in Ancestors(probe.in.fname)
             /\ MarkerFound(probe.out \o <<"f">>, probe.in.lang.RootMarkers)
        ELSE probe.out = RootPath

\* C15 witness: a config that requires ".git/" is selected for a file whose
\* parent directory holds the directory .git
C15_Witness ==
    /\ probe.fn = "getFormatConfigsForDocument" /\ probe.done
    /\ probe.in.fname = <<"proj", "src", "b.go">>
    /\ DOMAIN probe.in.allConfigs = {"go"}
    /\ Len(probe.in.allConfigs["go"]) = 1
    /\ probe.in.allConfigs["go"][1].RequireMarker
    /\ probe.in.allConfigs["go"][1].RootMarkers = <<Marker(".git", TRUE)>>
    /\ Len(probe.out) = 1

RECURSIVE Resolve(_)
Resolve(names) ==
    IF names = <<>> THEN <<>>
    ELSE LET front == Resolve(SubSeq(names, 1, Len(names) - 1))
             last == names[Len(names)]
         IN  IF last = "." THEN front
             ELSE IF last = ".."
             THEN (IF front = <<>> THEN <<>> ELSE SubSeq(front, 1, Len(front) - 1))
             ELSE Append(front, last)

\* C17 (SpecPure): an entry becomes a diagnostic exactly when its filename
\* is empty, or its filename, a stdin placeholder (stdin, -, <text>,
\* <stdin>) replaced by the filename of the document when lintStdin is set,
\* is the path of the document: an absolute filename as it is written, a
\* relative one joined to the effective root.
C17_FilenameFilter ==
    (probe.fn = "entryIsForDocument" /\ probe.done) =>
    LET e == probe.in.entryFilename
        doc == probe.in.f.NormalizedFilename
        placeholder == ~e.abs /\ Len(e.names) = 1
                        /\ e.names[1] \in {"stdin", "-", "<text>", "<stdin>"}
    IN  probe.out <=>
            \/ e = EmptyFilename
            \/ probe.in.config.LintStdin /\ placeholder
            \/ ~(probe.in.config.LintStdin /\ placeholder) /\ e.abs /\ e.names = doc
            \/ ~(probe.in.config.LintStdin /\ placeholder) /\ ~e.abs
                    /\ Resolve(probe.in.rootPath \o e.names) = doc

\* C17 witness: a relative filename with ".." that leads from the root to
\* the document is kept
C17_Witness ==
    /\ probe.fn = "entryIsForDocument" /\ probe.done
    /\ probe.in.rootPath = <<"srv">>
    /\ probe.in.f.NormalizedFilename = <<"proj", "stdin">>
    /\ probe.in.entryFilename = Filename(FALSE, <<"..", "proj", "stdin">>)
    /\ probe.out

\* C18 (SpecPure): a diagnostic starts at line max(Lnum - 1 - lintOffset,
\* 0); for an entry with Col 0 it starts and ends at character 0 whatever
\* lintOffsetColumns is, for any other entry it starts at character
\* max(Col - 1, 0) + lintOffsetColumns.
C18_StartPosition ==
    (probe.fn = "parseEfmEntryToDiagnostic" /\ probe.done /\ ~probe.out.panic) =>
    LET e == probe.in.entry
        d == probe.out.value
        line == e.Lnum - 1 - probe.in.config.LintOffset
    IN  /\ d.Start.Line = IF line > 0 THEN line ELSE 0
        /\ e.Col = 0 => d.Start.Character = 0 /\ d.End.Character = 0
        /\ e.Col # 0 =>
                d.Start.Character =
                    (IF e.Col - 1 > 0 THEN e.Col - 1 ELSE 0)
                        + probe.in.config.LintOffsetColumns

\* C18 witness: an entry for the whole line under a column offset of 1
C18_Witness ==
    /\ probe.fn = "parseEfmEntryToDiagnostic" /\ probe.done
    /\ probe.in.entry.Col = 0 /\ probe.in.entry.EndCol = 2
    /\ probe.in.entry.Lnum = 2
    /\ probe.in.config.LintOffsetColumns = 1
    /\ probe.in.config.LintOffset = -1
    /\ ~probe.out.panic
    /\ probe.out.value.Start = [Line |-> 2, Character |-> 0]
    /\ probe.out.value.End.Character = 0

\* C19 (SpecPure): getSeverity returns a severity for every type, every
\* lintCategoryMap (empty, or not empty with or without a key for the type)
\* and every lintSeverity: the type, translated through a map that is not
\* empty, gives Error for E/e, Warning for W/w, Information for I/i, Hint
\* for N/n, and otherwise lintSeverity if set and Error if not.
C19_SeverityTotal ==
    (probe.fn = "getSeverity" /\ probe.done) =>
    /\ ~probe.out.panic
    /\ probe.out.value \in {DiagError, DiagWarning, DiagInformation, DiagHint}
    /\ LET m == probe.in.categoryMap
           t == IF DOMAIN m = {} THEN probe.in.typ
                ELSE IF probe.in.typ \in DOMAIN m /\ m[probe.in.typ] # <<>>
                THEN m[probe.in.typ][1] ELSE "NUL"
       IN  probe.out.value =
            IF t \in {"E", "e"} THEN DiagError
            ELSE IF t \in {"W", "w"} THEN DiagWarning
            ELSE IF t \in {"I", "i"} THEN DiagInformation
            ELSE IF t \in {"N", "n"} THEN DiagHint
            ELSE IF probe.in.defaultSeverity # 0 THEN probe.in.defaultSeverity
            ELSE DiagError

EditsOrdered(edits) ==
    \A i \in 2..Len(edits) : edits[i].start >= edits[i - 1].end

\* no line of a range is negative and no range ends before it starts
RangesValid(edits) ==
    \A i \in 1..Len(edits) : edits[i].start >= 0 /\ edits[i].end >= edits[i].start

C23_InsertDeleteShape ==
    (probe.fn = "ComputeEdits" /\ probe.done) =>
        LET bl == SplitLines(probe.in.before)
            al == SplitLines(probe.in.after)
        IN  /\ (bl # al /\ IsSubSeqOf(bl, al)) =>
                    \A i \in 1..Len(probe.out) :
                        /\ probe.out[i].start = probe.out[i].end
                        /\ probe.out[i].newText # <<>>
            /\ (bl # al /\ IsSubSeqOf(al, bl)) =>
                    \A i \in 1..Len(probe.out) :
                        /\ probe.out[i].newText = <<>>
                        /\ probe.out[i].end > probe.out[i].start

\* C24 (SpecConfig): UpdateConfiguration overwrites only what the
\* notification supplies: without a languages map the table is left as it
\* is, with one the table becomes that map (a language that is not in the
\* new map has no configs of its own afterwards), lintDebounce and
\* formatDebounce change only when the notification has a value for them, to
\* that value, and nothing else of the server changes.
C24_ConfigFrame ==
    [][\A l \in {NilLanguages} \cup {Languages(m) : m \in NotifiedTables},
          lintD \in -1..MaxDebounce, formatD \in -1..MaxDebounce :
            UpdateConfiguration(l, lintD, formatD) =>
                /\ l.nil => configs' = configs
                /\ ~l.nil =>
                    /\ configs' = l.map
                    /\ \A lang \in Langs \ DOMAIN l.map :
                            getAllConfigsForLang(configs', lang)
                                = Entries(l.map, Wildcard)
                /\ lintD = 0 => lintDebounce' = lintDebounce
                /\ lintDebounce' # lintDebounce => lintDebounce' = lintD
                /\ formatD = 0 => formatDebounce' = formatDebounce
                /\ formatDebounce' # formatDebounce => formatDebounce' = formatD
                /\ UNCHANGED <<files, heap, lintTimer, timers, running, calls, runs,
                               formatTimer, ftimers, fcalls>>]_vars

\* C24 witness: after notifications the table is one that has no entry for
\* "go", both debounces are set and a document is open
C24_Witness ==
    /\ configs = ("txt" :> <<CfgB, CfgA>>)
    /\ getAllConfigsForLang(configs, "go") = <<>>
    /\ lintDebounce = 1 /\ formatDebounce = MaxDebounce
    /\ files["u1"] # NoRef

\* C25 (SpecProc): every lint command is started in a process group of its
\* own, and when its run is cancelled the whole group is killed: no process
\* the shell spawned is left running, with the output pipe open, for the task
\* of the cancelled run to wait for.
C25_GroupKilled ==
    \A r \in RunIds : \A i \in DOMAIN runs[r].tasks :
        /\ runs[r].tasks[i] \in Started => buildExecCmd.Setpgid
        /\ runs[r].tasks[i] # "orphan"

\* what the claim has a placeholder resolve to
Resolved(c, flag, neg, key, options) ==
    IF key \notin DOMAIN options
    THEN Placeholder(flag, c, IF neg THEN <<"!">> \o key ELSE key)
    ELSE IF options[key].bool
         THEN (IF options[key].b = ~neg THEN flag ELSE <<>>)
    ELSE IF neg THEN <<>>
    ELSE flag \o (IF c = ":" THEN <<" ">> ELSE <<"=">>) \o options[key].text

\* C26 (SpecPure): a placeholder ${FLAG:OPT} or ${FLAG=OPT} is resolved
\* against the options map, for every flag, key, value and negation: with
\* the key absent the text of the placeholder is left as it is; a boolean
\* value gives FLAG when it equals "not negated" and the empty string
\* otherwise; any other value gives FLAG, the separator (a space for ":" and
\* "=" for "=") and the value, or the empty string when OPT is negated. The
\* command is the text around the placeholder with the result in its place,
\* trimmed.
C26_OptionsResolved ==
    (probe.fn = "applyOptionsPlaceholders" /\ probe.done) =>
        probe.out = TrimSpace(probe.in.pre
                              \o Resolved(probe.in.c, probe.in.flag, probe.in.neg,
                                          probe.in.key, probe.in.options)
                              \o probe.in.post)

\* C26 witness: a negated placeholder of the "=" grammar, with a flag that
\* has a ":" in it, resolved against a false option
C26_Witness ==
    /\ probe.fn = "applyOptionsPlaceholders" /\ probe.done
    /\ probe.in.command = <<"e", " ", "$", "{", "f", ":", "g", "=", "!", "k", "}">>
    /\ probe.in.options = (<<"k">> :> BoolValue(FALSE))
    /\ probe.out = <<"e", " ", "f", ":", "g">>

\* sub occurs in s
Contains(s, sub) == \E p \in 1..Len(s) + 1 : HasAt(s, p, sub)

\* C27 (SpecPure): in the command built for a formatter, the filename
\* inserted for ${INPUT} or ${FILENAME} and the root path inserted for
\* ${ROOT} appear as they were inserted, whatever text of the form ${...},
\* ${x:key} or ${x=key} they have in them.
C27_InsertedTextKept ==
    (probe.fn = "buildFormatCommandString" /\ probe.done) =>
        /\ (Contains(probe.in.command, inputPlaceholder)
                \/ Contains(probe.in.command, filenamePlaceholder))
            => Contains(probe.out, escapeBrackets(probe.in.filename))
        /\ Contains(probe.in.command, rootPlaceholder)
            => Contains(probe.out, escapeBrackets(probe.in.rootPath))

\* C28 (SpecDebounce): in every reachable state at most one lint debounce
\* timer is pending: under any interleaving of concurrent ScheduleLinting
\* calls two calls never each arm a timer.
C28_OneTimerPending ==
    Cardinality({t \in TimerIds : timers[t].st = "armed"}) <= 1

\* the configs the lint run r selects from table t, and the formatting
\* request h
LintSelection(r, t) ==
    getLintConfigsForDocument(normalizedFilenameFromUri(runs[r].uri),
                              heap[files[runs[r].uri]].LanguageID, t, runs[r].ev)

FormatSelection(h, t) ==
    getFormatConfigsForDocument(normalizedFilenameFromUri(fcalls[h].uri),
                                heap[files[fcalls[h].uri]].LanguageID, t)

\* the configs of a run are those of one table, and it has one task for each
SnapshotCoherent ==
    /\ \A r \in RunIds : runs[r].cfgs # <<>> =>
            /\ \E t \in {Table} \cup SnapshotTables : runs[r].cfgs = LintSelection(r, t)
            /\ runs[r].pc = "tasks" => Len(runs[r].tasks) = Len(runs[r].cfgs)
            /\ \A d \in 1..Len(runs[r].diags) :
                    runs[r].diags[d].cfg \in 0..Len(runs[r].cfgs)
    /\ \A h \in Handlers : fcalls[h].cfgs # <<>> =>
            /\ \E t \in {Table} \cup SnapshotTables : fcalls[h].cfgs = FormatSelection(h, t)
            /\ fcalls[h].k <= Len(fcalls[h].cfgs) + 1

\* the configs are selected from the table that is current at the selection
\* and stay as they are while the run is in progress
SnapshotKept ==
    /\ \A r \in RunIds :
        /\ (runs[r].pc = "start" /\ runs'[r].pc = "reset")
                => runs'[r].cfgs = LintSelection(r, configs)
        /\ runs[r].pc \in {"reset", "begin", "tasks"} => runs'[r].cfgs = runs[r].cfgs
    /\ \A h \in Handlers :
        /\ (fcalls[h].pc = "start" /\ fcalls'[h].pc = "begin")
                => fcalls'[h].cfgs = FormatSelection(h, configs)
        /\ fcalls[h].pc \in {"begin", "loop"} => fcalls'[h].cfgs = fcalls[h].cfgs

\* C29 (SpecSnapshot): a lint run and a format run use one snapshot of the
\* configuration: the configs a run selects and executes all come from the
\* language table that is current when it selects them, also when
\* UpdateConfiguration replaces the table while the run is in progress.
C29_ConfigSnapshot == []SnapshotCoherent /\ [][SnapshotKept]_vars

\* C29 witness: the tasks of a lint run and the commands of a format run are
\* those selected from the first table, and the table has been replaced by
\* one from which other configs would be selected
C29_Witness ==
    /\ runs[1].pc = "tasks" /\ runs[1].cfgs = LintSelection(1, Table)
    /\ fcalls["h1"].pc = "loop" /\ fcalls["h1"].cfgs = FormatSelection("h1", Table)
    /\ configs \in SnapshotTables
    /\ LintSelection(1, configs) # runs[1].cfgs
    /\ FormatSelection("h1", configs) # fcalls["h1"].cfgs

\* C30 (SpecRun): when a lint run has terminated, with nil or with an error,
\* its scope is closed and its handle released: the map of cancel functions
\* does not hold a handle of a terminated run that is not cancelled.
C30_HandleReleased ==
    \A r \in RunIds :
        runs[r].pc = "returned" => ~(running[runs[r].uri] = r /\ ~runs[r].cancelled)

\* C31 (SpecPure): a lint command that exits with a positive code and whose
\* output has no line that matches a lint format is answered with an error
\* (sent on the errors channel), not with an empty list of diagnostics.
C31_PositiveExitNoMatchIsError ==
    (/\ probe.fn = "lintDocument" /\ probe.done
     /\ probe.in.exit > 0 /\ probe.in.n = 0)
        => probe.out.err

\* the fileRef a run resolves holds the text and the version the calls of
\* the store have given the document so far, and so does the reset message
LatestRead ==
    \A r \in RunIds :
        /\ (runs[r].pc = "start" /\ runs'[r].pc = "reset") =>
                /\ runs'[r].f = files[runs[r].uri]
                /\ heap[runs'[r].f].Text = expect.doc[runs[r].uri].Text
                /\ heap[runs'[r].f].Version = expect.doc[runs[r].uri].Version
        /\ (runs[r].pc = "reset" /\ runs'[r].pc = "begin") =>
                /\ runs'[r].diags[1].version = expect.doc[runs[r].uri].Version
                /\ heap[runs[r].f].Text = expect.doc[runs[r].uri].Text

Silent(run) == run.diags = <<>> /\ run.prog = <<>> /\ run.errs = {}

\* RunAllLinters of an open document from whose table no config is selected
\* returns nil and has sent nothing, and no other run is touched
SilentReturn ==
    \A r \in RunIds :
        (/\ runs[r].pc = "start" /\ runs'[r].pc # "start"
         /\ files[runs[r].uri] # NoRef
         /\ LintSelection(r, configs) = <<>>)
            => /\ runs'[r].pc = "returned" /\ runs'[r].ret = "ok"
               /\ Silent(runs'[r])
               /\ \A x \in RunIds \ {r} : runs'[x] = runs[x]

\* C33 (SpecSilent): when no lint config is selected for the document and
\* the event (none configured, all filtered by requireMarker or by the event
\* gate), RunAllLinters returns nil and sends nothing: no reset message, no
\* progress begin or end, no error; the diagnostics an earlier run published
\* for the URI are not cleared.
C33_NoConfigSilent ==
    /\ [][SilentReturn]_vars
    /\ [](\A r \in RunIds :
            (runs[r].pc = "returned" /\ runs[r].ret = "ok" /\ runs[r].cfgs = <<>>)
                => Silent(runs[r]))

\* C33 witness: a run has published diagnostics for u1, and a later run for
\* u1, at a save under a table whose only config does not lint on save, has
\* returned nil without a message
C33_Witness ==
    /\ runs[1].pc = "returned" /\ runs[1].uri = "u1"
    /\ \E d \in 1..Len(runs[1].diags) : runs[1].diags[d].n = 1
    /\ runs[2].pc = "returned" /\ runs[2].uri = "u1" /\ runs[2].ev = "save"
    /\ runs[2].ret = "ok" /\ Silent(runs[2])
    /\ configs = ("go" :> <<CfgB>>)

\* the channels of a run are closed: RunAllLinters has returned, every task
\* has ended and has sent its one item
ClosedAfterSends ==
    \A r \in RunIds : runs[r].pc = "closed" =>
        /\ runs[r].ret \in {"ok", "err"}
        /\ \A i \in DOMAIN runs[r].tasks : runs[r].tasks[i] = "done"
        /\ runs[r].cfgs # <<>> =>
                Len(runs[r].diags) - 1 + Cardinality(runs[r].errs) = Len(runs[r].tasks)

\* the channels are closed by the step after the return of RunAllLinters,
\* nothing is sent once it has returned, and a formatting request sends its
\* progress only inside RunAllFormatters
SendsBeforeClose ==
    /\ \A r \in RunIds :
        /\ (runs'[r].pc = "closed" /\ runs[r].pc # "closed") => runs[r].pc = "returned"
        /\ runs[r].pc = "closed" => runs'[r].pc = "closed"
        /\ runs[r].pc \in {"returned", "closed"} =>
                /\ runs'[r].diags = runs[r].diags
                /\ runs'[r].errs = runs[r].errs
                /\ runs'[r].prog = runs[r].prog
    /\ \A h \in Handlers :
        (fcalls'[h].prog # fcalls[h].prog /\ fcalls'[h].prog # <<>>)
            => fcalls[h].pc \in {"begin", "loop"}

\* C34 (SpecChannels): the diagnostics, errors and progress channels of a
\* run are closed only after RunAllLinters (RunAllFormatters for the progress
\* channel of a format request) has returned, which is only after every
\* task has completed its send: no task sends on a closed channel, and the
\* consumers leave when the channels are closed.
C34_CloseAfterReturn == []ClosedAfterSends /\ [][SendsBeforeClose]_vars

\* C34 witness: the channels of a run are closed after its tasks have sent
\* an error and a diagnostics message, and a formatting request has returned
\* after its progress end
C34_Witness ==
    \E r \in RunIds :
        /\ runs[r].pc = "closed" /\ runs[r].errs # {} /\ Len(runs[r].diags) > 1
        /\ fcalls["h1"].pc = "done" /\ Len(fcalls["h1"].prog) = 2

\* C35 (SpecDebounce): ScheduleLinting never calls Reset on an empty timer
\* slot: under every interleaving with a timer callback, which clears the
\* slot, the slot a call has seen non-nil is non-nil when the call resets it.
C35_ResetOnTimer ==
    [][\A h \in Handlers :
            (calls[h].pc = "reset" /\ calls'[h].pc # "reset")
                => (lintTimer # NoTimer /\ ~panicked')]_vars

\* C36 (SpecSchedule): every ScheduleLinting call for an open document is
\* followed at some time by a lint run for the URI of the call, also when
\* the call arrives while a timer armed by a call for another URI is pending
\* (a server that has crashed runs nothing).
C36_CallLeadsToRun ==
    \A u \in URIs :
        (\E h \in Handlers : calls[h].pc # "idle" /\ calls[h].uri = u /\ files[u] # NoRef)
            ~> (panicked \/ \E r \in RunIds : runs[r].uri = u /\ runs[r].pc # "free")

\* a begin and then one end, both with the token t
Bracketed(prog, t) ==
    /\ Len(prog) = 2
    /\ prog[1] = [kind |-> "begin", token |-> t]
    /\ prog[2] = [kind |-> "end", token |-> t]

\* C37 (SpecChannels): every progress begin of a format or lint run is
\* followed by exactly one progress end with the same token, whatever the
\* outcome of the run: a run that has ended and has sent a begin has sent
\* one end after it.
C37_BeginHasEnd ==
    /\ \A h \in Handlers :
        (fcalls[h].pc = "done" /\ fcalls[h].prog # <<>>) => Bracketed(fcalls[h].prog, h)
    /\ \A r \in RunIds :
        (runs[r].pc \in {"returned", "closed"} /\ runs[r].prog # <<>>)
            => Bracketed(runs[r].prog, r)

\* C38 (SpecPure): every diagnostic made from a lint entry is well-formed,
\* for every entry and every config (any lintOffset and lintOffsetColumns,
\* any Lnum, EndLnum, Col, EndCol): its lines and characters are not
\* negative and its end is not before its start.
C38_DiagnosticWellFormed ==
    (probe.fn = "parseEfmEntryToDiagnostic" /\ probe.done /\ ~probe.out.panic) =>
    LET d == probe.out.value IN
        /\ d.Start.Line >= 0 /\ d.Start.Character >= 0
        /\ d.End.Line >= 0 /\ d.End.Character >= 0
        /\ \/ d.End.Line > d.Start.Line
           \/ d.End.Line = d.Start.Line /\ d.End.Character >= d.Start.Character

\* the run old has been superseded by the run new for its URI, and new has
\* published its reset message
Superseded(old, new) ==
    /\ old # new /\ runs[old].uri = runs[new].uri
    /\ runs[old].cancelled /\ running[runs[new].uri] = new
    /\ runs[new].diags # <<>>

\* C39 (SpecChannels): once a newer lint run for a URI has published its
\* reset message, no publishDiagnostics message of an older run for the URI,
\* superseded and cancelled, is published any more.
C39_SupersededSilent ==
    [][\A old, new \in RunIds :
            Superseded(old, new) => runs'[old].diags = runs[old].diags]_vars

\* C40 (SpecRun): after CloseFile(uri) no publishDiagnostics message is
\* sent for the URI until it is opened again, neither by a lint run that was
\* in flight nor by one of a timer that was armed when the document was
\* closed: while the URI has no document, no run for it sends diagnostics.
C40_ClosedSilent ==
    [][\A r \in RunIds :
            (files[runs[r].uri] = NoRef /\ files'[runs[r].uri] = NoRef
             /\ runs[r].pc # "free")
                => runs'[r].diags = runs[r].diags]_vars

====
